---- MODULE Spec2Model ----
(***************************************************************************)
(* Verification model of the ask-caa-nz document pipeline:                 *)
(*   - the CAR downloader  (scripts: fetchWithRedirects, warmSession,      *)
(*     downloadPdf, main),                                                 *)
(*   - the markdown normalizer (normalizeTextToMarkdown),                  *)
(*   - the converter's artifact writer and the corpus combiner             *)
(*     (buildFrontMatter, extractFrontMatterAndBody, combiner main).       *)
(*   - the converter run (convertOne, converter main), the cookie jar and  *)
(*     redirect handling of fetchWithRedirects, and the grounding context  *)
(*     of the ask endpoint (handleAsk) and the ask CLI.                    *)
(* Each subsystem has its own specification over the shared variables.     *)
(***************************************************************************)
EXTENDS Integers, Sequences, FiniteSets, TLC

VARIABLES
    manifest,   \* the parsed car.yaml: a sequence of entries
    yaml,       \* what reading car.yaml gives: "list" (the entries of manifest),
                \* or a failure or a value that is not a list (see YamlKinds)
    fs,         \* the file system: a function from paths to file contents
    pc,         \* position of the running script
    idx,        \* index of the manifest entry the downloader's loop is at
    attempt,    \* number of tryOnce() calls made for the current entry
    res,        \* the downloader's `res`: the last response received
    results,    \* the downloader's `results` array
    report,     \* content of download/car/report.json (<<>> until written)
    summary,    \* the "Summary: ok, fail" line (<<>> until logged)
    exitCode,   \* process exit code (-1 while running)
    text,       \* normalizer: the input text, a sequence of characters
    normalized, \* normalizer: normalizeTextToMarkdown(text)
    renormalized, \* normalizer: normalizeTextToMarkdown(normalized)
    warnings,   \* combiner: the parts of its [MISS] console.warn lines, in order
    combinedCount, \* combiner: the count of its "Combined N files" line (-1 before)
    cookieJar,  \* downloader: the Map of cookies, as <<name, value>> pairs in insertion order
    maxRedirects, \* fetchWithRedirects: the maxRedirects argument of the call in progress
    budget,     \* the maxRedirects argument of the outermost call (-1: no fetch yet)
    redirects,  \* redirect responses received by the fetch so far
    requests,   \* client.get calls made by the fetch so far
    sentCookie, \* the Cookie header of the request sent last (<<>>: no header)
    wire,       \* the response received last
    settled,    \* how the promise of the fetch settled ("pending" before)
    inFlight,   \* requests sent whose response or error has not arrived
    docRequests, \* client.get calls made for the current entry
    accepts,    \* the Accept headers of the attempts made for the current entry
    waited,     \* milliseconds slept since the last attempt for the current entry
    apiKey,     \* ask: whether OPENAI_API_KEY is set
    systemText, \* ask: content of the system message sent to the model (<<>> if none)
    askError    \* ask: the error the request ended with ("" if none)

fetchVars == <<idx, attempt, res, results, report, summary, exitCode>>
normVars == <<text, normalized, renormalized>>
combVars == <<warnings, combinedCount>>
nonFetchVars == <<normVars, combVars>>
hopVars == <<cookieJar, maxRedirects, budget, redirects, requests, sentCookie, wire, settled,
            inFlight>>
netVars == <<hopVars, docRequests, accepts, waited>>
askVars == <<apiKey, systemText, askError>>
vars == <<manifest, yaml, fs, pc, fetchVars, normVars, combVars, netVars, askVars>>

\* no response received yet
NoWire == [redirect |-> FALSE, setCookie |-> <<>>, payload |-> <<>>]

\* main: const cookieJar = new Map(), nothing fetched yet
NetIdle ==
    /\ cookieJar = <<>>
    /\ maxRedirects = -1
    /\ budget = -1
    /\ redirects = 0
    /\ requests = 0
    /\ sentCookie = <<>>
    /\ wire = NoWire
    /\ settled = "pending"
    /\ inFlight = 0
    /\ docRequests = 0
    /\ accepts = <<>>
    /\ waited = 0

\* no question asked
AskIdle ==
    /\ apiKey = TRUE
    /\ systemText = <<>>
    /\ askError = ""

----------------------------------------------------------------------------
\* Bounds of the model
MaxEntries == 2     \* longest manifest of the downloader runs
MaxChunks == 2      \* write(2) calls writeFileSync needs for one payload
MaxTextLen == 6     \* longest text handed to the normalizer
MaxDocs == 3        \* longest manifest of the converter and combiner runs

\* Program constants
SleepMs == 400          \* await sleep(400)
MinPdfBytes == 10240    \* res.body.length < 10240
PadWidth == 3           \* padStart(3, '0')
MaxBlankRun == 2        \* if (blankCount <= 2) compact.push('')

----------------------------------------------------------------------------
\* Generic helpers

DigitChars == <<"0", "1", "2", "3", "4", "5", "6", "7", "8", "9">>

RECURSIVE Decimal(_)
\* String(n) for a non-negative integer: its decimal digits, one character each
Decimal(n) ==
    IF n < 10 THEN <<DigitChars[n + 1]>>
    ELSE Append(Decimal(n \div 10), DigitChars[(n % 10) + 1])

RECURSIVE PadStart(_, _, _)
\* s.padStart(w, fill)
PadStart(s, w, fill) == IF Len(s) >= w THEN s ELSE PadStart(<<fill>> \o s, w, fill)

\* zeroPadPart(part) == String(part).padStart(3, '0')
zeroPadPart(part) == PadStart(Decimal(part), PadWidth, "0")

\* Paths are sequences of characters and name pieces, "/" being path.sep.
Sep == "/"
RECURSIVE PathJoin(_)
\* path.join(...segments)
PathJoin(segs) ==
    IF Len(segs) = 1 THEN segs[1]
    ELSE PathJoin(SubSeq(segs, 1, Len(segs) - 1)) \o <<Sep>> \o segs[Len(segs)]
\* path.isAbsolute(p)
IsAbsolute(p) == p # <<>> /\ p[1] = Sep
\* path.resolve(root, p)
PathResolve(root, p) == IF IsAbsolute(p) THEN p ELSE root \o <<Sep>> \o p

\* projectRoot / scriptsRoot: the scripts package directory
ScriptsRoot == <<Sep, "repo", Sep, "scripts">>

\* computeDefaultPdfPath(part): download/car/Part_<ppp>_Consolidation.pdf
computeDefaultPdfPath(p) ==
    PathJoin(<<(<<"download">>), (<<"car">>), (<<"Part_">> \o p \o <<"_Consolidation.pdf">>)>>)

\* mutant of TmpPathOf: the payload is written straight to the final path
TmpPathOf_InPlace(outPath) == outPath

\* tmpPath = `${outPath}.tmp`
TmpPathOf(outPath) == Append(outPath, ".tmp")

\* fs operations
Exists(path) == path \in DOMAIN fs
WriteTo(f, path, content) ==
    [q \in (DOMAIN f) \cup {path} |-> IF q = path THEN content ELSE f[q]]
Remove(f, path) == [q \in (DOMAIN f) \ {path} |-> f[q]]

----------------------------------------------------------------------------
\* HTTP responses as the downloader sees them

PdfMagic == "%PDF-"
\* content-type header values a server may send ("" = header missing)
ContentTypes == {"application/pdf", "application/pdf; charset=binary",
                 "text/html; charset=utf-8", ""}

\* (res.headers['content-type'] || '').split(';')[0].trim()
Mime(ct) ==
    CASE ct = "application/pdf" -> "application/pdf"
      [] ct = "application/pdf; charset=binary" -> "application/pdf"
      [] ct = "text/html; charset=utf-8" -> "text/html"
      [] OTHER -> ""

\* A payload: its length and its first five bytes (head), gen 1 = fetched in
\* this run, gen 0 = left on disk by an earlier run.
Heads == {PdfMagic, "<html"}
Bodies == [size : {MinPdfBytes - 1, MinPdfBytes}, head : Heads, gen : {1}]
OldBody == [size |-> MinPdfBytes, head |-> PdfMagic, gen |-> 0]
Responses == [ctype : ContentTypes, body : Bodies]
NoResponse == [ctype |-> "", body |-> [size |-> 0, head |-> "", gen |-> 1]]

\* what fetchWithRedirects can reject with
FetchErrors == {"ECONNRESET", "Too many redirects"}

\* file contents: a payload and how many of its MaxChunks chunks are on disk
FileOf(body, n) == [body |-> body, written |-> n]
OldFile == FileOf(OldBody, MaxChunks)

\* mime !== 'application/pdf' || res.body.length < 10240
Rejected(r) == Mime(r.ctype) # "application/pdf" \/ r.body.size < MinPdfBytes

\* looksLikePdf(buffer) of the CAA downloader: the leading five bytes
looksLikePdf(body) == body.size >= 5 /\ body.head = PdfMagic

----------------------------------------------------------------------------
\* Reading the manifest

\* what reading and parsing car.yaml can give: the list of entries, no file,
\* invalid YAML, an empty document, a mapping, a string scalar
YamlKinds == {"list", "missing", "invalid", "null", "mapping", "string"}
\* readYaml throws: fs.readFileSync or YAML.parse
ReadYamlThrows(kind) == kind \in {"missing", "invalid"}
\* [...entries] and for (... of list) throw a TypeError: not iterable
SpreadThrows(kind) == kind \in {"null", "mapping"}

----------------------------------------------------------------------------
\* The CAR downloader

PartNo(i) == 13 * i - 1
FetchEntry(i) == [part |-> PartNo(i), url |-> <<"url", PartNo(i)>>]
FetchManifests == {[i \in 1..n |-> FetchEntry(i)] : n \in 1..MaxEntries}

\* outPath = path.resolve(projectRoot, relOut)
OutPathOf(entry) == PathResolve(ScriptsRoot, computeDefaultPdfPath(zeroPadPart(entry.part)))
CurEntry == manifest[idx]
CurOut == OutPathOf(CurEntry)

\* every way the final pdf paths of the manifest can look before a run
InitialFs(m) ==
    LET paths == {OutPathOf(m[i]) : i \in 1..Len(m)}
    IN  UNION {[S -> {OldFile}] : S \in SUBSET paths}

InitFetchOf(kinds) ==
    /\ yaml \in kinds
    /\ manifest \in IF yaml = "list" THEN FetchManifests ELSE {<<>>}
    /\ fs \in InitialFs(manifest)
    /\ pc = "warm"
    /\ idx = 1
    /\ attempt = 0
    /\ res = NoResponse
    /\ results = <<>>
    /\ report = <<>>
    /\ summary = <<>>
    /\ exitCode = -1
    /\ text = <<>>
    /\ normalized = <<>>
    /\ renormalized = <<>>
    /\ warnings = <<>>
    /\ combinedCount = -1
    /\ NetIdle
    /\ AskIdle

InitFetch == InitFetchOf({"list"})

\* main: const list = readYaml(dataFile) throws, before anything else
fetchReadYamlThrows ==
    /\ pc = "warm"
    /\ ReadYamlThrows(yaml)
    /\ pc' = "aborted"
    /\ exitCode' = 1
    /\ UNCHANGED <<netVars, askVars, nonFetchVars, manifest, yaml, fs, idx, attempt, res, results, report, summary>>

\* main: for (const entry of list) on a value that is no list.  null and a
\* mapping are not iterable; the characters of a string are entries without a
\* url, and the first fetchWithRedirects(undefined) rejects with a TypeError.
forOfThrows ==
    /\ pc = "loop"
    /\ yaml # "list"
    /\ pc' = "aborted"
    /\ exitCode' = 1
    /\ UNCHANGED <<netVars, askVars, nonFetchVars, manifest, yaml, fs, idx, attempt, res, results, report, summary>>

\* warmSession: try { await fetchWithRedirects(REFERER, ...) } catch {}
warmSession ==
    /\ pc = "warm"
    /\ ~ReadYamlThrows(yaml)
    /\ \E outcome \in {"response"} \cup FetchErrors : pc' = "loop"
    /\ UNCHANGED <<netVars, askVars, nonFetchVars, manifest, yaml, fs, idx, attempt, res, results, report, summary, exitCode>>

\* for (const entry of list): enter downloadPdf for the next entry
downloadPdfBegin ==
    /\ pc = "loop"
    /\ yaml = "list"
    /\ idx <= Len(manifest)
    /\ pc' = "try"
    /\ attempt' = 0
    /\ docRequests' = 0
    /\ accepts' = <<>>
    /\ waited' = 0
    /\ UNCHANGED <<hopVars, askVars, nonFetchVars, manifest, yaml, fs, idx, res, results, report, summary, exitCode>>

\* await tryOnce() resolving with a response; the first one is checked at once
tryOnceResolve ==
    /\ pc = "try"
    /\ \E r \in Responses :
         /\ res' = r
         /\ attempt' = attempt + 1
         /\ pc' = IF attempt = 0 /\ Rejected(r) THEN "sleep" ELSE "decide"
    /\ UNCHANGED <<netVars, askVars, nonFetchVars, manifest, yaml, fs, idx, results, report, summary, exitCode>>

\* await tryOnce() rejecting: nothing catches it before main().catch
tryOnceReject ==
    /\ pc = "try"
    /\ \E e \in FetchErrors :
         /\ pc' = "aborted"
         /\ exitCode' = 1
    /\ UNCHANGED <<netVars, askVars, nonFetchVars, manifest, yaml, fs, idx, attempt, res, results, report, summary>>

\* await sleep(400)
sleep ==
    /\ pc = "sleep"
    /\ pc' = "try"
    /\ waited' = SleepMs
    /\ UNCHANGED <<hopVars, docRequests, accepts, askVars, nonFetchVars, manifest, yaml, fs, idx, attempt, res, results, report, summary, exitCode>>

ResultOf(entry, ok, r) ==
    [part |-> zeroPadPart(entry.part), url |-> entry.url, ok |-> ok,
     size |-> r.body.size, mime |-> Mime(r.ctype), outPath |-> OutPathOf(entry)]

\* mutant of returnFail: a rejected document throws, as the CAA downloader does
returnFail_Throw ==
    /\ pc = "decide"
    /\ Rejected(res)
    /\ pc' = "aborted"
    /\ exitCode' = 1
    /\ UNCHANGED <<netVars, askVars, nonFetchVars, manifest, yaml, fs, idx, attempt, res, results, report, summary>>

\* mutant of returnFail: the failure path unlinks the final path, as a cleanup
returnFail_Unlink ==
    /\ pc = "decide"
    /\ Rejected(res)
    /\ fs' = Remove(fs, CurOut)
    /\ results' = Append(results, ResultOf(CurEntry, FALSE, res))
    /\ idx' = idx + 1
    /\ pc' = "loop"
    /\ UNCHANGED <<netVars, askVars, nonFetchVars, manifest, yaml, attempt, res, report, summary, exitCode>>

\* mutant of returnFail: the loop moves on before the result is pushed
returnFail_Unrecorded ==
    /\ pc = "decide"
    /\ Rejected(res)
    /\ idx' = idx + 1
    /\ pc' = "loop"
    /\ UNCHANGED <<netVars, askVars, nonFetchVars, manifest, yaml, fs, attempt, res, results, report, summary, exitCode>>

\* if (mime2 !== 'application/pdf' || res.body.length < 10240) return { ok: false, ... }
returnFail ==
    /\ pc = "decide"
    /\ Rejected(res)
    /\ results' = Append(results, ResultOf(CurEntry, FALSE, res))
    /\ idx' = idx + 1
    /\ pc' = "loop"
    /\ UNCHANGED <<netVars, askVars, nonFetchVars, manifest, yaml, fs, attempt, res, report, summary, exitCode>>

\* fs.writeFileSync(tmpPath, res.body): open with O_TRUNC
writeOpen ==
    /\ pc = "decide"
    /\ ~Rejected(res)
    /\ fs' = WriteTo(fs, TmpPathOf(CurOut), FileOf(res.body, 0))
    /\ pc' = "write"
    /\ UNCHANGED <<netVars, askVars, nonFetchVars, manifest, yaml, idx, attempt, res, results, report, summary, exitCode>>

\* fs.writeFileSync(tmpPath, res.body): one write(2) call
writeChunk ==
    /\ pc = "write"
    /\ LET tmp == TmpPathOf(CurOut)
       IN  /\ fs' = WriteTo(fs, tmp, FileOf(fs[tmp].body, fs[tmp].written + 1))
           /\ pc' = IF fs[tmp].written + 1 = MaxChunks THEN "rename" ELSE "write"
    /\ UNCHANGED <<netVars, askVars, nonFetchVars, manifest, yaml, idx, attempt, res, results, report, summary, exitCode>>

\* rename(2): the destination is replaced in one step
Rename(f, src, dst) == IF src = dst THEN f ELSE WriteTo(Remove(f, src), dst, f[src])

\* fs.renameSync(tmpPath, outPath); return { ok: true, ... }
renameAndReturnOk ==
    /\ pc = "rename"
    /\ fs' = Rename(fs, TmpPathOf(CurOut), CurOut)
    /\ results' = Append(results, ResultOf(CurEntry, TRUE, res))
    /\ idx' = idx + 1
    /\ pc' = "loop"
    /\ UNCHANGED <<netVars, askVars, nonFetchVars, manifest, yaml, attempt, res, report, summary, exitCode>>

OkCount(rs) == Cardinality({i \in 1..Len(rs) : rs[i].ok})

\* after the loop: report.json and the summary line
writeReport ==
    /\ pc = "loop"
    /\ yaml = "list"
    /\ idx > Len(manifest)
    /\ report' = results
    /\ summary' = <<OkCount(results), Len(results) - OkCount(results)>>
    /\ pc' = "done"
    /\ exitCode' = 0
    /\ UNCHANGED <<netVars, askVars, nonFetchVars, manifest, yaml, fs, idx, attempt, res, results>>

Running == {"warm", "loop", "try", "sleep", "decide", "write", "rename"}

\* the process is killed (power loss, SIGKILL) between two steps
crash ==
    /\ pc \in Running
    /\ pc' = "crashed"
    /\ exitCode' = 137
    /\ UNCHANGED <<netVars, askVars, nonFetchVars, manifest, yaml, fs, idx, attempt, res, results, report, summary>>

NextFetch ==
    \/ warmSession
    \/ downloadPdfBegin
    \/ tryOnceResolve
    \/ tryOnceReject
    \/ sleep
    \/ returnFail
    \/ writeOpen
    \/ writeChunk
    \/ renameAndReturnOk
    \/ writeReport
    \/ crash

SpecFetch == InitFetch /\ [][NextFetch]_vars

----------------------------------------------------------------------------
\* Claims about the downloader (checked under SpecFetch)

\* the three validation conditions of the specification
TripleCheck(r) ==
    /\ Mime(r.ctype) = "application/pdf"
    /\ r.body.size >= MinPdfBytes
    /\ r.body.head = PdfMagic

Last(s) == s[Len(s)]
FinalPaths == {OutPathOf(manifest[i]) : i \in 1..Len(manifest)}

\* C1: a document's result is ok, and its payload is saved, if and only if the
\* accepted response has mime application/pdf, at least 10240 bytes and the
\* leading bytes %PDF-; a response violating one of the three is never saved.
C1_OkIffTripleCheck ==
    /\ pc \in {"write", "rename"} => TripleCheck(res)
    /\ (pc \in {"loop", "done"} /\ results # <<>>) =>
           (Last(results).ok <=> TripleCheck(res))
    /\ \A p \in FinalPaths \cap DOMAIN fs :
           fs[p].body.gen = 1 => fs[p].body.head = PdfMagic

\* C2: the second attempt is made exactly when the first response violates one
\* of the three conditions, there is never a third attempt, and a document is
\* marked failed only after two rejected attempts.
C2_RetryIffFirstViolates ==
    /\ attempt <= 2
    /\ pc = "sleep" => (attempt = 1 /\ ~TripleCheck(res))
    /\ (attempt = 1 /\ pc \in {"decide", "write", "rename"}) => TripleCheck(res)
    /\ (pc = "loop" /\ results # <<>> /\ ~Last(results).ok) => attempt = 2

\* C3: a document rejected on both attempts is recorded with ok = false and
\* does not stop the run: the loop goes on to the next entry, and a run that
\* reaches its end reports one record per manifest entry, in manifest order,
\* with ok count + fail count = N.
C3_RecordsInOrder ==
    /\ Len(results) <= Len(manifest)
    /\ \A i \in 1..Len(results) : results[i].part = zeroPadPart(manifest[i].part)
    /\ (pc = "decide" /\ Rejected(res)) => attempt = 2
C3_ReportComplete ==
    pc = "done" =>
        /\ report = results
        /\ Len(report) = Len(manifest)
        /\ summary[1] + summary[2] = Len(manifest)
        /\ summary[2] = Cardinality({i \in 1..Len(report) : ~report[i].ok})
C3_RejectionStep ==
    (pc = "decide" /\ Rejected(res) /\ pc' # "crashed") =>
        /\ results' = Append(results, ResultOf(CurEntry, FALSE, res))
        /\ ~Last(results').ok
        /\ idx' = idx + 1
        /\ pc' = "loop"
C3_LoopStep ==
    (pc = "loop" /\ pc' # "crashed") =>
        pc' = IF idx <= Len(manifest) THEN "try" ELSE "done"
C3_FailureDoesNotStopRun ==
    /\ [](C3_RecordsInOrder /\ C3_ReportComplete)
    /\ [][C3_RejectionStep /\ C3_LoopStep]_vars
\* a finished run whose first document failed and whose second was saved
C3_Witness ==
    /\ pc = "done"
    /\ Len(report) >= 2
    /\ ~report[1].ok
    /\ report[2].ok

\* C4: an error raised during a fetch attempt is caught inside the
\* per-document fetch and never propagates: the run never ends through
\* main().catch because of it.
C4_ErrorNeverPropagates == pc # "aborted" /\ exitCode # 1

\* C5: at every point, crashes included, a final PDF path is absent, holds the
\* content it had before the fetch, or holds a complete accepted payload: it
\* never holds a partially written one.
C5_FinalNeverPartial ==
    \A p \in FinalPaths \cap DOMAIN fs :
        \/ fs[p] = OldFile
        \/ /\ fs[p].written = MaxChunks
           /\ fs[p].body.gen = 1
           /\ fs[p].body.size >= MinPdfBytes
\* a crash in the middle of writing the payload, the older PDF still in place
C5_Witness ==
    /\ pc = "crashed"
    /\ \E p \in FinalPaths \cap DOMAIN fs :
        /\ fs[p] = OldFile
        /\ TmpPathOf(p) \in DOMAIN fs
        /\ fs[TmpPathOf(p)].written > 0
        /\ fs[TmpPathOf(p)].written < MaxChunks

----------------------------------------------------------------------------
\* The markdown normalizer (normalizeTextToMarkdown)

NL == "\n"
CR == "\r"
SP == " "
\* the characters of a text: a letter, a space, the two line-end characters
Chars == {"a", SP, CR, NL}
\* what the regular expression class \s matches among Chars
Whitespace == {SP, CR, NL}

Front(s) == SubSeq(s, 1, Len(s) - 1)

RECURSIVE SplitFrom(_, _, _)
\* text.split(/\r?\n/) from position i on, one line at a time: the line runs to
\* the next "\n", and a "\r" right before it belongs to the separator
SplitFrom(t, i, acc) ==
    IF \A j \in i..Len(t) : t[j] # NL THEN Append(acc, SubSeq(t, i, Len(t)))
    ELSE LET j == CHOOSE j \in i..Len(t) : t[j] = NL /\ \A k \in i..(j - 1) : t[k] # NL
             cur == SubSeq(t, i, j - 1)
         IN  SplitFrom(t, j + 1,
                 Append(acc, IF cur # <<>> /\ cur[Len(cur)] = CR THEN Front(cur) ELSE cur))

\* text.split(/\r?\n/)
SplitLines(t) == SplitFrom(t, 1, <<>>)

\* mutant of TrimEnd: /\s$/ in place of /\s+$/, one character only
TrimEnd_One(line) ==
    IF line # <<>> /\ line[Len(line)] \in Whitespace THEN Front(line) ELSE line

RECURSIVE TrimEnd(_)
\* line.replace(/\s+$/, '')
TrimEnd(line) ==
    IF line # <<>> /\ line[Len(line)] \in Whitespace THEN TrimEnd(Front(line)) ELSE line

\* mutant of KeepBlank: an off-by-one in the comparison
KeepBlank_Three(blankCount) == blankCount <= MaxBlankRun + 1

\* if (blankCount <= 2) compact.push('')
KeepBlank(blankCount) == blankCount <= MaxBlankRun

RECURSIVE CompactFrom(_, _, _, _)
\* the for loop over lines: blankCount and compact are its two locals
CompactFrom(lines, i, blankCount, compact) ==
    IF i > Len(lines) THEN compact
    ELSE LET trimmed == TrimEnd(lines[i])
         IN  IF trimmed = <<>>
             THEN CompactFrom(lines, i + 1, blankCount + 1,
                      IF KeepBlank(blankCount + 1) THEN Append(compact, <<>>) ELSE compact)
             ELSE CompactFrom(lines, i + 1, 0, Append(compact, trimmed))

RECURSIVE Join(_, _)
\* lines.join(sep)
Join(lines, sep) ==
    IF lines = <<>> THEN <<>>
    ELSE IF Len(lines) = 1 THEN lines[1]
    ELSE Join(Front(lines), sep) \o sep \o lines[Len(lines)]

normalizeTextToMarkdown(t) == Join(CompactFrom(SplitLines(t), 1, 0, <<>>), <<NL>>)

RECURSIVE TextsOfLen(_)
TextsOfLen(n) ==
    IF n = 0 THEN {<<>>}
    ELSE {Append(t, c) : t \in TextsOfLen(n - 1), c \in Chars}
Texts == UNION {TextsOfLen(n) : n \in 0..MaxTextLen}

InitNorm ==
    /\ text \in Texts
    /\ normalized = <<>>
    /\ renormalized = <<>>
    /\ pc = "input"
    /\ manifest = <<>>
    /\ yaml = "list"
    /\ fs = <<>>
    /\ idx = 0
    /\ attempt = 0
    /\ res = NoResponse
    /\ results = <<>>
    /\ report = <<>>
    /\ summary = <<>>
    /\ exitCode = -1
    /\ warnings = <<>>
    /\ combinedCount = -1
    /\ NetIdle
    /\ AskIdle

\* markdownBody = normalizeTextToMarkdown(text)
Normalize ==
    /\ pc = "input"
    /\ normalized' = normalizeTextToMarkdown(text)
    /\ pc' = "normalized"
    /\ UNCHANGED <<netVars, askVars, manifest, yaml, fs, fetchVars, combVars, text, renormalized>>

\* the normalizer applied to its own output
Renormalize ==
    /\ pc = "normalized"
    /\ renormalized' = normalizeTextToMarkdown(normalized)
    /\ pc' = "renormalized"
    /\ UNCHANGED <<netVars, askVars, manifest, yaml, fs, fetchVars, combVars, text, normalized>>

NextNorm ==
    \/ Normalize
    \/ Renormalize

SpecNorm == InitNorm /\ [][NextNorm]_vars

----------------------------------------------------------------------------
\* Claims about the normalizer (checked under SpecNorm)

IsBlank(line) == \A i \in 1..Len(line) : line[i] \in Whitespace
NonBlankIdx(lines) == {i \in 1..Len(lines) : ~IsBlank(lines[i])}
\* the k-th smallest element of a finite set of numbers
RECURSIVE Nth(_, _)
Nth(S, k) ==
    LET lo == CHOOSE x \in S : \A y \in S : x <= y
    IN  IF k = 1 THEN lo ELSE Nth(S \ {lo}, k - 1)
\* lengths of the runs of blank lines: before the first non-blank line, between
\* consecutive non-blank lines, after the last one
BlankRuns(lines) ==
    LET nb == NonBlankIdx(lines)
        n == Cardinality(nb)
        pos(k) == IF k = 0 THEN 0 ELSE IF k = n + 1 THEN Len(lines) + 1 ELSE Nth(nb, k)
    IN  [k \in 1..(n + 1) |-> pos(k) - pos(k - 1) - 1]
NonBlankLines(lines) ==
    LET nb == NonBlankIdx(lines)
    IN  [k \in 1..Cardinality(nb) |-> lines[Nth(nb, k)]]
\* t is line with its trailing whitespace, and nothing else, removed
IsStripped(t, line) ==
    /\ Len(t) <= Len(line)
    /\ t = SubSeq(line, 1, Len(t))
    /\ \A i \in (Len(t) + 1)..Len(line) : line[i] \in Whitespace
    /\ t = <<>> \/ t[Len(t)] \notin Whitespace
Min2(a, b) == IF a <= b THEN a ELSE b

\* C6: normalizeTextToMarkdown is idempotent.
C6_Idempotent == pc = "renormalized" => renormalized = normalized
\* an input the first pass changed: a collapsed run and a stripped line
C6_Witness ==
    /\ pc = "renormalized"
    /\ normalized # text
    /\ \E k \in DOMAIN BlankRuns(SplitLines(text)) : BlankRuns(SplitLines(text))[k] > MaxBlankRun
    /\ \E i \in DOMAIN SplitLines(text) :
           ~IsBlank(SplitLines(text)[i]) /\ TrimEnd(SplitLines(text)[i]) # SplitLines(text)[i]

\* C7: every output line is the input line without its trailing whitespace, the
\* non-blank lines keep their content and order, every run of 3 or more blank
\* lines becomes exactly 2 blank lines and runs of 1 or 2 keep their length.
C7_StripAndCollapse ==
    pc = "normalized" =>
        LET inl == SplitLines(text)
            outl == SplitLines(normalized)
        IN  /\ \A i \in 1..Len(outl) : outl[i] = <<>> \/ outl[i][Len(outl[i])] \notin Whitespace
            /\ Len(NonBlankLines(outl)) = Len(NonBlankLines(inl))
            /\ \A k \in 1..Len(NonBlankLines(inl)) :
                   IsStripped(NonBlankLines(outl)[k], NonBlankLines(inl)[k])
            /\ \A k \in DOMAIN BlankRuns(inl) :
                   BlankRuns(outl)[k] = Min2(BlankRuns(inl)[k], MaxBlankRun)
\* five blank lines after a line of text, normalized to two
C7_Witness ==
    /\ pc = "normalized"
    /\ text = <<"a", NL, NL, NL, NL, NL>>
    /\ normalized = <<"a", NL, NL>>

----------------------------------------------------------------------------
\* Text helpers shared by the converter and the combiner.  A text is a
\* sequence of pieces: words, single digits, punctuation, SP, CR and NL.

RECURSIVE TrimStart(_)
TrimStart(line) ==
    IF line # <<>> /\ line[1] \in Whitespace THEN TrimStart(SubSeq(line, 2, Len(line))) ELSE line
\* s.trim()
Trim(line) == TrimStart(TrimEnd(line))

----------------------------------------------------------------------------
\* YAML scalars as the yaml package reads and writes them (core schema)

IsDigit(c) == \E d \in 1..Len(DigitChars) : DigitChars[d] = c
DigitVal(c) == (CHOOSE d \in 1..Len(DigitChars) : DigitChars[d] = c) - 1
RECURSIVE DigitsToInt(_)
DigitsToInt(toks) ==
    IF Len(toks) = 1 THEN DigitVal(toks[1])
    ELSE 10 * DigitsToInt(Front(toks)) + DigitVal(toks[Len(toks)])
AllDigits(toks) == toks # <<>> /\ \A i \in 1..Len(toks) : IsDigit(toks[i])

\* JavaScript values of the metadata: undefined, null, a number, a string
Undef == [t |-> "undef", n |-> 0, s |-> <<>>]
Null == [t |-> "null", n |-> 0, s |-> <<>>]
Num(n) == [t |-> "int", n |-> n, s |-> <<>>]
Str(toks) == [t |-> "str", n |-> 0, s |-> toks]
Truthy(v) == (v.t = "int" /\ v.n # 0) \/ (v.t = "str" /\ v.s # <<>>)

\* a plain scalar holding ": ", or ending in ":", starts a nested mapping
HasColonSpace(toks) ==
    \E i \in 1..Len(toks) : toks[i] = ":" /\ (i = Len(toks) \/ toks[i + 1] \in Whitespace)

\* the value a plain scalar resolves to
ResolveScalar(toks) ==
    IF toks = <<>> THEN Null
    ELSE IF AllDigits(toks) THEN Num(DigitsToInt(toks))
    ELSE Str(toks)

\* one line of a block mapping: key ":" [SP value]
YamlLineOk(line) ==
    /\ Len(line) >= 2
    /\ line[1] \notin Whitespace \cup {":"}
    /\ line[2] = ":"
    /\ Len(line) >= 3 => line[3] = SP
    /\ ~HasColonSpace(Trim(SubSeq(line, 3, Len(line))))
YamlKey(line) == line[1]
YamlValue(line) == ResolveScalar(Trim(SubSeq(line, 3, Len(line))))

\* YAML.parse(yamlText) of a flat block mapping: [ok, map]; ok = FALSE when
\* the parser throws.  An empty document parses to null, which `|| {}` turns
\* into the empty object.
YamlParse(yamlText) ==
    LET ls == SplitLines(yamlText)
        used == {i \in 1..Len(ls) : Trim(ls[i]) # <<>>}
        good == /\ \A i \in used : YamlLineOk(ls[i])
                /\ \A i, j \in used : YamlKey(ls[i]) = YamlKey(ls[j]) => i = j
    IN  IF ~good THEN [ok |-> FALSE, map |-> <<>>]
        ELSE [ok |-> TRUE,
              map |-> [k \in {YamlKey(ls[i]) : i \in used} |->
                          YamlValue(ls[CHOOSE i \in used : YamlKey(ls[i]) = k])]]

\* the double-quote character
DQ == "''"

\* the text YAML.stringify writes for one scalar: a string that would not read
\* back as the same string is double-quoted
ScalarText(v) ==
    CASE v.t = "int" -> Decimal(v.n)
      [] v.t = "null" -> <<"null">>
      [] OTHER -> IF v.s = <<>> \/ AllDigits(v.s) \/ HasColonSpace(v.s) \/ v.s = <<"null">>
                  THEN <<DQ>> \o v.s \o <<DQ>>
                  ELSE v.s

RECURSIVE YamlStringify(_)
\* YAML.stringify(obj) for an object given as its <<key, value>> pairs in order
YamlStringify(pairs) ==
    IF pairs = <<>> THEN <<>>
    ELSE YamlStringify(Front(pairs))
             \o <<pairs[Len(pairs)][1], ":", SP>> \o ScalarText(pairs[Len(pairs)][2]) \o <<NL>>

----------------------------------------------------------------------------
\* The converter: buildFrontMatter and convertOne

Dashes == "---"

\* mutant of buildFrontMatter: the pages line comes before the source_url line
buildFrontMatter_PagesFirst(part, name, url, pages, date) ==
    Join(<< <<Dashes>>,
            <<"title", ":", SP, "CAR", SP, "Part", SP>> \o part \o <<SP, "-", SP>> \o name,
            <<"pages", ":", SP>> \o Decimal(pages),
            <<"source_url", ":", SP>> \o url,
            <<"generated_at", ":", SP>> \o date,
            <<Dashes>>,
            <<>> >>, <<NL>>)

\* buildFrontMatter({ part, name, url, pages }) with date = new Date().toISOString()
buildFrontMatter(part, name, url, pages, date) ==
    Join(<< <<Dashes>>,
            <<"title", ":", SP, "CAR", SP, "Part", SP>> \o part \o <<SP, "-", SP>> \o name,
            <<"source_url", ":", SP>> \o url,
            <<"pages", ":", SP>> \o Decimal(pages),
            <<"generated_at", ":", SP>> \o date,
            <<Dashes>>,
            <<>> >>, <<NL>>)

\* content.items.map(it => typeof it.str === 'string' ? it.str : '')
ItemStrings(page) == [k \in 1..Len(page) |-> IF page[k].isString THEN page[k].str ELSE <<>>]

RECURSIVE PagesText_Descending(_, _)
\* mutant of PagesText: the pages are visited from the last to the first
PagesText_Descending(pdf, n) ==
    IF n = 0 THEN <<>>
    ELSE Join(ItemStrings(pdf[n]), <<SP>>) \o <<NL, NL>> \o PagesText_Descending(pdf, n - 1)

RECURSIVE PagesText(_, _)
\* the loop over pages 1..n: text += strings.join(' ') + '\n\n'
PagesText(pdf, n) ==
    IF n = 0 THEN <<>>
    ELSE PagesText(pdf, n - 1) \o Join(ItemStrings(pdf[n]), <<SP>>) \o <<NL, NL>>

\* convertOne(pdfPath, meta, outFile): the markdown written to outFile
convertOne(pdf, meta, date) ==
    LET pages == Len(pdf)
        markdownBody == normalizeTextToMarkdown(PagesText(pdf, pages))
        fm == buildFrontMatter(zeroPadPart(meta.part), meta.name, meta.url, pages, date)
    IN  fm \o <<"#", SP>> \o meta.name \o <<NL, NL>> \o markdownBody \o <<NL>>

NoMd == <<>>
EndsWithPdf(p) == p # <<>> /\ p[Len(p)] = ".pdf"
HasPathSeparator(p) == \E i \in 1..Len(p) : p[i] = Sep
DefaultMdName(part) == <<"Part_">> \o zeroPadPart(part) \o <<".md">>

\* converter main: relMd and outFile for a manifest entry
ConverterMdPath(meta) ==
    LET candidate == Trim(meta.md)
        relMd == IF candidate # <<>>
                 THEN IF HasPathSeparator(candidate) THEN candidate
                      ELSE PathJoin(<< <<"md">>, <<"car">>, candidate >>)
                 ELSE PathJoin(<< <<"md">>, <<"car">>, DefaultMdName(meta.part) >>)
        fixed == IF EndsWithPdf(relMd) THEN Append(Front(relMd), ".md") ELSE relMd
    IN  PathResolve(ScriptsRoot, fixed)

----------------------------------------------------------------------------
\* The combiner: extractFrontMatterAndBody, normalizeSpacing, main

RECURSIVE ClosingFrom(_, _)
\* while (i < lines.length && lines[i].trim() !== '---') i += 1
ClosingFrom(lines, i) ==
    IF i > Len(lines) \/ Trim(lines[i]) = <<Dashes>> THEN i ELSE ClosingFrom(lines, i + 1)

\* mutant of extractFrontMatterAndBody: a block that does not parse is left in the body
extractFrontMatterAndBody_KeepBlock(mdText) ==
    LET lines == SplitLines(mdText)
        i == ClosingFrom(lines, 2)
    IN  IF Trim(lines[1]) # <<Dashes>> \/ i > Len(lines)
        THEN [meta |-> <<>>, body |-> mdText]
        ELSE LET parsed == YamlParse(Join(SubSeq(lines, 2, i - 1), <<NL>>))
             IN  IF parsed.ok
                 THEN [meta |-> parsed.map, body |-> Join(SubSeq(lines, i + 1, Len(lines)), <<NL>>)]
                 ELSE [meta |-> <<>>, body |-> mdText]

\* extractFrontMatterAndBody(mdText)
extractFrontMatterAndBody(mdText) ==
    LET lines == SplitLines(mdText)
        i == ClosingFrom(lines, 2)
    IN  IF Trim(lines[1]) # <<Dashes>> \/ i > Len(lines)
        THEN [meta |-> <<>>, body |-> mdText]
        ELSE LET parsed == YamlParse(Join(SubSeq(lines, 2, i - 1), <<NL>>))
             IN  [meta |-> IF parsed.ok THEN parsed.map ELSE <<>>,
                  body |-> Join(SubSeq(lines, i + 1, Len(lines)), <<NL>>)]

\* mutant of normalizeSpacing: the text is left as it is
normalizeSpacing_Off(t) == t

\* text.replace(/\n{3,}/g, '\n\n'): of a run of "\n" the first two are kept
normalizeSpacing(t) ==
    LET indexed == [i \in 1..Len(t) |-> <<i, t[i]>>]
        Kept(p) == ~(p[2] = NL /\ p[1] >= 3 /\ t[p[1] - 1] = NL /\ t[p[1] - 2] = NL)
        kept == SelectSeq(indexed, Kept)
    IN  [k \in 1..Len(kept) |-> kept[k][2]]

\* (a, b) => (a.part || 0) - (b.part || 0)
ComparePart(a, b) == a.part - b.part

RECURSIVE InsertSorted(_, _)
InsertSorted(sorted, e) ==
    IF sorted = <<>> THEN <<e>>
    ELSE IF ComparePart(sorted[Len(sorted)], e) <= 0 THEN Append(sorted, e)
    ELSE Append(InsertSorted(Front(sorted), e), sorted[Len(sorted)])

\* mutant of SortedEntries: the entries are taken in manifest order
SortedEntries_Unsorted(entries) == entries

RECURSIVE SortedEntries(_)
\* [...entries].sort(...): a stable sort
SortedEntries(entries) ==
    IF entries = <<>> THEN <<>>
    ELSE InsertSorted(SortedEntries(Front(entries)), entries[Len(entries)])

\* mdRel and mdAbs for a manifest entry
CombinerMdPath(e) ==
    LET mdRel == IF e.md # <<>>
                 THEN IF IsAbsolute(e.md) THEN e.md
                      ELSE PathJoin(<< <<"md">>, <<"car">>, e.md >>)
                 ELSE PathJoin(<< <<"md">>, <<"car">>, DefaultMdName(e.part) >>)
    IN  PathResolve(ScriptsRoot, mdRel)

\* defaultOut = path.resolve(projectRoot, 'md', 'ALL_CAR.md')
CorpusPath == PathResolve(ScriptsRoot, PathJoin(<< <<"md">>, <<"ALL_CAR.md">> >>))

Get(meta, k) == IF k \in DOMAIN meta THEN meta[k] ELSE Undef
DropUndefined(pairs) == SelectSeq(pairs, LAMBDA kv : kv[2].t # "undef")

\* mutant of MetaBlock: the manifest URL wins over the front matter's
MetaBlock_ManifestUrlFirst(e, meta) ==
    DropUndefined(<<
        <<"part", Str(zeroPadPart(e.part))>>,
        <<"name", Str(e.name)>>,
        <<"source_url", IF Truthy(Str(e.url)) THEN Str(e.url) ELSE Get(meta, "source_url")>>,
        <<"pages", Get(meta, "pages")>>,
        <<"generated_at", Get(meta, "generated_at")>> >>)

\* metaBlock, undefined fields dropped
MetaBlock(e, meta) ==
    DropUndefined(<<
        <<"part", Str(zeroPadPart(e.part))>>,
        <<"name", Str(e.name)>>,
        <<"source_url", IF Truthy(Get(meta, "source_url")) THEN Get(meta, "source_url") ELSE Str(e.url)>>,
        <<"pages", Get(meta, "pages")>>,
        <<"generated_at", Get(meta, "generated_at")>> >>)

BeginMarker(e) ==
    <<"<!--", SP, "BEGIN", SP, "Part_">> \o zeroPadPart(e.part) \o <<":", SP>> \o e.name \o <<SP, "-->">>
\* mutant of EndMarker: the identifier is not zero-padded
EndMarker_Unpadded(e) == <<"<!--", SP, "END", SP, "Part_">> \o Decimal(e.part) \o <<SP, "-->">>

EndMarker(e) == <<"<!--", SP, "END", SP, "Part_">> \o zeroPadPart(e.part) \o <<SP, "-->">>
\* the code fence lines around the metadata block (three backquotes, written
\* here with apostrophes)
YamlFence == "'''yaml"
Fence == "'''"

\* header + body.trimEnd() + footer for one artifact
DocPart(e, raw) ==
    LET fb == extractFrontMatterAndBody(raw)
        header == <<NL, NL>> \o BeginMarker(e) \o <<NL, YamlFence, NL>>
                      \o YamlStringify(MetaBlock(e, fb.meta)) \o <<Fence, NL>>
        footer == <<NL>> \o EndMarker(e) \o <<NL>>
    IN  header \o TrimEnd(fb.body) \o footer

HasArtifact(f, e) == CombinerMdPath(e) \in DOMAIN f

\* the loop of main: the parts array, the skipped entries
CombineParts(sorted, f) ==
    LET present == SelectSeq(sorted, LAMBDA e : HasArtifact(f, e))
    IN  [k \in 1..Len(present) |-> DocPart(present[k], f[CombinerMdPath(present[k])])]
SkippedEntries(sorted, f) == SelectSeq(sorted, LAMBDA e : ~HasArtifact(f, e))

\* The combiner may run once after the converter (pc "idle" to "combined"), or
\* twice (pc "first", "combined1", then "rerun"), or twice with one change of
\* the artifacts in between (pc "first", "combined1", "changed", "recombined").
CombinerMayRun == pc \in {"idle", "first", "combined1", "changed"}
AfterCombine == CASE pc = "idle" -> "combined"
                  [] pc = "first" -> "combined1"
                  [] pc = "combined1" -> "rerun"
                  [] OTHER -> "recombined"

\* a YAML string scalar in place of the list: its text
ManifestString == <<"T", "O", "D", "O">>
\* the entries main iterates over: the list, or the characters of a string, an
\* entry without a part giving zeroPadPart(undefined) = "undefined"
CombinerEntries == IF yaml = "list" THEN manifest ELSE <<>>
UndefinedWarnings ==
    IF yaml = "string" THEN [k \in 1..Len(ManifestString) |-> <<"undefined">>] ELSE <<>>

\* mutant of Combine: the artifact is read without the existsSync guard, so a
\* missing one throws ENOENT out of main
Combine_MissingIsFatal ==
    /\ CombinerMayRun
    /\ LET sorted == SortedEntries(CombinerEntries)
           parts == CombineParts(sorted, fs)
           skipped == SkippedEntries(sorted, fs)
       IN  IF ReadYamlThrows(yaml) \/ SpreadThrows(yaml) \/ skipped # <<>>
           THEN /\ pc' = "aborted"
                /\ exitCode' = 1
                /\ UNCHANGED <<netVars, askVars, fs, warnings, combinedCount>>
           ELSE /\ fs' = WriteTo(fs, CorpusPath, normalizeSpacing(Join(parts, <<NL>>)) \o <<NL>>)
                /\ warnings' = UndefinedWarnings
                /\ combinedCount' = Len(parts)
                /\ pc' = AfterCombine
                /\ exitCode' = 0
    /\ UNCHANGED <<netVars, askVars, manifest, yaml, idx, attempt, res, results, report, summary, normVars>>

\* mutant of Combine: the new documents are appended to the corpus file
Combine_Append ==
    /\ CombinerMayRun
    /\ LET sorted == SortedEntries(CombinerEntries)
           parts == CombineParts(sorted, fs)
           skipped == SkippedEntries(sorted, fs)
           combined == normalizeSpacing(Join(parts, <<NL>>)) \o <<NL>>
       IN  IF ReadYamlThrows(yaml) \/ SpreadThrows(yaml)
           THEN /\ pc' = "aborted"
                /\ exitCode' = 1
                /\ UNCHANGED <<netVars, askVars, fs, warnings, combinedCount>>
           ELSE /\ fs' = WriteTo(fs, CorpusPath,
                             IF CorpusPath \in DOMAIN fs THEN fs[CorpusPath] \o combined ELSE combined)
                /\ warnings' = [k \in 1..Len(skipped) |-> zeroPadPart(skipped[k].part)]
                                   \o UndefinedWarnings
                /\ combinedCount' = Len(parts)
                /\ pc' = AfterCombine
                /\ exitCode' = 0
    /\ UNCHANGED <<netVars, askVars, manifest, yaml, idx, attempt, res, results, report, summary, normVars>>

\* main of the combiner: readYaml, the sort, the loop, the corpus file.  With a
\* manifest that cannot be read, or that cannot be spread, main throws before
\* the loop; the characters of a string are entries without an artifact.
Combine ==
    /\ CombinerMayRun
    /\ LET sorted == SortedEntries(CombinerEntries)
           parts == CombineParts(sorted, fs)
           skipped == SkippedEntries(sorted, fs)
       IN  IF ReadYamlThrows(yaml) \/ SpreadThrows(yaml)
           THEN /\ pc' = "aborted"
                /\ exitCode' = 1
                /\ UNCHANGED <<netVars, askVars, fs, warnings, combinedCount>>
           ELSE /\ fs' = WriteTo(fs, CorpusPath, normalizeSpacing(Join(parts, <<NL>>)) \o <<NL>>)
                /\ warnings' = [k \in 1..Len(skipped) |-> zeroPadPart(skipped[k].part)]
                                   \o UndefinedWarnings
                /\ combinedCount' = Len(parts)
                /\ pc' = AfterCombine
                /\ exitCode' = 0
    /\ UNCHANGED <<netVars, askVars, manifest, yaml, idx, attempt, res, results, report, summary, normVars>>

----------------------------------------------------------------------------
\* Inputs of the converter and combiner runs

PartList == <<87, 12, 100, 5, 139>>
KnownParts == {PartList[i] : i \in 1..MaxDocs}
NameOf(part) ==
    IF part = 12 THEN <<"Rules", ":", SP, "General">> ELSE <<"Safety", SP, "Management">>
UrlOf(part) == <<"https", ":", "//caa.nz/Part_">> \o zeroPadPart(part) \o <<".pdf">>
OldUrlOf(part) == <<"https", ":", "//old.caa.nz/Part_">> \o zeroPadPart(part) \o <<".pdf">>
\* the md field: absent, a bare file name, a relative path with a separator
MdForms(part) ==
    CASE part = 87 -> {<<"P87.md">>}
      [] part = 100 -> {NoMd, PathJoin(<< <<"md">>, <<"car">>, DefaultMdName(part) >>)}
      [] OTHER -> {NoMd}
AllEntries ==
    UNION {{[part |-> p, name |-> NameOf(p), url |-> UrlOf(p), md |-> m] : m \in MdForms(p)} :
              p \in KnownParts}
CombineManifests ==
    {m \in UNION {[1..n -> AllEntries] : n \in 0..MaxDocs} :
        \A i, j \in 1..Len(m) : m[i].part = m[j].part => i = j}

\* the shorter manifests, of the converter runs and of the repeated combiner runs
ConvertManifests == {m \in CombineManifests : Len(m) <= MaxEntries}

Item(toks) == [isString |-> TRUE, str |-> toks]
NonTextItem == [isString |-> FALSE, str |-> <<>>]
\* a two-page PDF whose second page has no text run, and a ten-page PDF
PdfA == << <<Item(<<"Rule", SP, "1">>), Item(<<"CAA">>)>>, <<NonTextItem>> >>
PdfB == [i \in 1..10 |-> <<Item(<<"p">>)>>]
Pdfs == {PdfA, PdfB}
\* values of new Date().toISOString(): of an earlier run, of this run
OldDate == <<"2025-08-09T00", ":", "32Z">>
Dates == {<<"2026-01-01T00", ":", "00Z">>}

\* a markdown file that does not start with a '---' line
HandWritten(e) == <<"#", SP>> \o e.name \o <<NL, NL, "text", NL>>
\* the artifact found before the run: the one an earlier converter run left when
\* the manifest had another URL; for part 100 a file without front matter
OldArtifact(e) ==
    IF e.part = 100 THEN HandWritten(e)
    ELSE convertOne(PdfA, [e EXCEPT !.url = OldUrlOf(e.part)], OldDate)
InitialArtifacts(m) ==
    {[p \in {ConverterMdPath(m[i]) : i \in S} |->
         OldArtifact(m[CHOOSE i \in S : ConverterMdPath(m[i]) = p])] : S \in SUBSET (1..Len(m))}

InitCombineOf(kinds) ==
    /\ yaml \in kinds
    /\ manifest \in IF yaml = "list" THEN CombineManifests ELSE {<<>>}
    /\ fs \in InitialArtifacts(manifest)
    /\ pc = "idle"
    /\ warnings = <<>>
    /\ combinedCount = -1
    /\ NetIdle
    /\ AskIdle
    /\ idx = 0
    /\ attempt = 0
    /\ res = NoResponse
    /\ results = <<>>
    /\ report = <<>>
    /\ summary = <<>>
    /\ exitCode = -1
    /\ text = <<>>
    /\ normalized = <<>>
    /\ renormalized = <<>>

InitCombine == InitCombineOf({"list"})

\* the converter writes the artifact of one manifest entry: before the
\* combiner runs, or between its two runs
Convert ==
    /\ pc \in {"idle", "combined1"}
    /\ \E i \in 1..Len(manifest), pdf \in Pdfs, date \in Dates :
         fs' = WriteTo(fs, ConverterMdPath(manifest[i]), convertOne(pdf, manifest[i], date))
    /\ pc' = IF pc = "idle" THEN "idle" ELSE "changed"
    /\ UNCHANGED <<netVars, askVars, manifest, yaml, fetchVars, normVars, combVars>>

NextCombine ==
    \/ Convert
    \/ Combine

SpecCombine == InitCombine /\ [][NextCombine]_vars

\* Two runs of the combiner
InitRecombine ==
    /\ manifest \in ConvertManifests
    /\ yaml = "list"
    /\ fs \in InitialArtifacts(manifest)
    /\ pc = "first"
    /\ warnings = <<>>
    /\ combinedCount = -1
    /\ NetIdle
    /\ AskIdle
    /\ idx = 0
    /\ attempt = 0
    /\ res = NoResponse
    /\ results = <<>>
    /\ report = <<>>
    /\ summary = <<>>
    /\ exitCode = -1
    /\ text = <<>>
    /\ normalized = <<>>
    /\ renormalized = <<>>

\* an artifact is deleted between two runs of the combiner
removeArtifact ==
    /\ pc = "combined1"
    /\ \E i \in 1..Len(manifest) :
         /\ HasArtifact(fs, manifest[i])
         /\ fs' = Remove(fs, CombinerMdPath(manifest[i]))
    /\ pc' = "changed"
    /\ UNCHANGED <<netVars, askVars, manifest, yaml, fetchVars, normVars, combVars>>

NextRecombine ==
    \/ Combine
    \/ Convert
    \/ removeArtifact

SpecRecombine == InitRecombine /\ [][NextRecombine]_vars

----------------------------------------------------------------------------
\* Claims about the combiner (checked under SpecCombine)

CorpusLines == SplitLines(fs[CorpusPath])
IsBegin(line) ==
    /\ Len(line) >= 5 + PadWidth
    /\ SubSeq(line, 1, 5) = <<"<!--", SP, "BEGIN", SP, "Part_">>
BeginPart(line) == DigitsToInt(SubSeq(line, 6, 5 + PadWidth))
\* the identifiers of the documents of the corpus, in corpus order
CorpusOrder ==
    LET begins == SelectSeq(CorpusLines, IsBegin)
    IN  [k \in 1..Len(begins) |-> BeginPart(begins[k])]
ManifestOrder == [k \in 1..Len(manifest) |-> manifest[k].part]
\* the lines between the fences that follow the BEGIN line of a document
BlockOf(ls, part) ==
    LET b == CHOOSE i \in 1..Len(ls) : IsBegin(ls[i]) /\ BeginPart(ls[i]) = part
        c == CHOOSE j \in (b + 2)..Len(ls) :
                 ls[j] = <<Fence>> /\ \A k \in (b + 2)..(j - 1) : ls[k] # <<Fence>>
    IN  SubSeq(ls, b + 2, c - 1)
\* the lines between the two '---' lines of an artifact
FrontMatterLines(md) ==
    LET ls == SplitLines(md)
        c == ClosingFrom(ls, 2)
    IN  IF ls[1] # <<Dashes>> \/ c > Len(ls) THEN <<>> ELSE SubSeq(ls, 2, c - 1)
\* the lines of a block that give a value to key
LinesOf(lines, key) ==
    {lines[i] : i \in {j \in 1..Len(lines) :
                          Len(lines[j]) >= 2 /\ lines[j][1] = key /\ lines[j][2] = ":"}}
WithArtifact == {i \in 1..Len(manifest) : HasArtifact(fs, manifest[i])}

\* C8: the documents of the combined corpus are in ascending order of numeric
\* identifier, whatever the order of the manifest.
C8_AscendingOrder ==
    pc = "combined" =>
        LET order == CorpusOrder
        IN  /\ \A i, j \in 1..Len(order) : i < j => order[i] < order[j]
            /\ {order[k] : k \in 1..Len(order)} = {manifest[i].part : i \in WithArtifact}
\* the manifest [087, 012, 100], every artifact there, combined as [012, 087, 100]
C8_Witness ==
    /\ pc = "combined"
    /\ ManifestOrder = <<87, 12, 100>>
    /\ CorpusOrder = <<12, 87, 100>>

\* C9: the combiner emits exactly the entries that have an artifact, warns once
\* for each entry that has none, writes the corpus and ends with success; it
\* never aborts.
C9_MissingNeverFatal ==
    /\ pc # "aborted"
    /\ exitCode # 1
    /\ pc = "combined" =>
           LET order == CorpusOrder
               with == WithArtifact
           IN  /\ exitCode = 0
               /\ CorpusPath \in DOMAIN fs
               /\ Len(order) = Cardinality(with)
               /\ {order[k] : k \in 1..Len(order)} = {manifest[i].part : i \in with}
               /\ combinedCount = Cardinality(with)
               /\ Len(warnings) = Len(manifest) - Cardinality(with)
               /\ {warnings[k] : k \in 1..Len(warnings)} =
                      {zeroPadPart(manifest[i].part) : i \in (1..Len(manifest)) \ with}
\* a run with one entry emitted and another skipped with a warning
C9_Witness ==
    /\ pc = "combined"
    /\ warnings # <<>>
    /\ CorpusOrder # <<>>
    /\ exitCode = 0

\* the front matter of the artifact of entry i, as the combiner reads it
MetaOf(i) == extractFrontMatterAndBody(fs[CombinerMdPath(manifest[i])]).meta
StatesProvenance(i) == Truthy(Get(MetaOf(i), "source_url")) /\ Get(MetaOf(i), "pages").t = "int"

----------------------------------------------------------------------------
\* The converter run: main of the converter, one manifest entry per step

MaxPages == 3       \* most pages of a PDF handed to convertOne

\* repoRoot = path.resolve(__dirname, '..', '..')
RepoRoot == <<Sep, "repo">>
\* relPdf and pdfPath of an entry without a pdf field
PdfPathOf(meta) == PathResolve(RepoRoot, computeDefaultPdfPath(zeroPadPart(meta.part)))
\* reportPath = path.resolve(scriptsRoot, 'convert_report.json')
ConvertReportPath == PathResolve(ScriptsRoot, <<"convert_report.json">>)

\* a file pdfjs can open, with its pages; a file getDocument rejects
PdfFile(pdf) == [kind |-> "pdf", pages |-> pdf]
CorruptPdf == [kind |-> "corrupt", pages |-> <<>>]

\* pages of the generated PDFs: page k holds one text run "Rule k", or three
\* items of which the middle one has no str, or no item at all
RuleText(k) == <<"Rule", SP, DigitChars[k + 1]>>
PageForms(k) ==
    { <<Item(RuleText(k))>>,
      <<Item(<<"CAA">>), NonTextItem, Item(RuleText(k))>>,
      <<>> }
RichPdfs ==
    UNION {{pdf \in [1..n -> UNION {PageForms(k) : k \in 1..n}] :
               \A k \in 1..n : pdf[k] \in PageForms(k)} : n \in 0..MaxPages}


\* the PDFs an entry of manifest m may have on disk
PdfChoices(m) == IF Len(m) = 1 THEN {PdfFile(pdf) : pdf \in RichPdfs} \cup {CorruptPdf}
                 ELSE {PdfFile(PdfA), CorruptPdf}
\* the artifact an earlier run of the converter wrote from the same inputs
PriorArtifact(meta, file) == convertOne(file.pages, meta, OldDate)

\* what one entry may have on disk before a converter run: no PDF, or a PDF,
\* and with a readable PDF possibly the artifact of an earlier run
DiskOptions(m, e) ==
    {<<>>}
    \cup {(PdfPathOf(e) :> file) : file \in PdfChoices(m)}
    \cup {(PdfPathOf(e) :> file) @@ (ConverterMdPath(e) :> PriorArtifact(e, file)) :
              file \in PdfChoices(m) \ {CorruptPdf}}
RECURSIVE ConvertFsUpTo(_, _)
ConvertFsUpTo(m, n) ==
    IF n = 0 THEN {<<>>}
    ELSE {a @@ b : a \in ConvertFsUpTo(m, n - 1), b \in DiskOptions(m, m[n])}
\* the disk before a converter run
ConvertInitialFs(m) == ConvertFsUpTo(m, Len(m))

InitConvert ==
    /\ yaml \in YamlKinds
    /\ manifest \in IF yaml = "list" THEN ConvertManifests ELSE {<<>>}
    /\ fs \in ConvertInitialFs(manifest)
    /\ pc = "cv_start"
    /\ idx = 0
    /\ attempt = 0
    /\ res = NoResponse
    /\ results = <<>>
    /\ report = <<>>
    /\ summary = <<>>
    /\ exitCode = -1
    /\ text = <<>>
    /\ normalized = <<>>
    /\ renormalized = <<>>
    /\ warnings = <<>>
    /\ combinedCount = -1
    /\ NetIdle
    /\ AskIdle

\* main: entries = readYaml(dataFile); byPart = new Map(entries.map(...)).
\* readYaml throws on a missing or invalid file; entries.map throws a TypeError
\* on null, on a mapping and on a string.
convertReadYaml ==
    /\ pc = "cv_start"
    /\ IF yaml = "list"
       THEN /\ pc' = "cv_loop"
            /\ idx' = 1
            /\ UNCHANGED exitCode
       ELSE /\ pc' = "aborted"
            /\ exitCode' = 1
            /\ UNCHANGED idx
    /\ UNCHANGED <<netVars, askVars, manifest, yaml, fs, attempt, res, results, report, summary, normVars, combVars>>

\* a record of results
ConvertRecord(part, ok, error, pages, outFile) ==
    [part |-> part, ok |-> ok, error |-> error, pages |-> pages, outFile |-> outFile]

\* mutant of convertEntry: convertOne is called outside the try block
convertEntry_NoCatch ==
    /\ pc = "cv_loop"
    /\ idx <= Len(manifest)
    /\ LET meta == manifest[idx]
           part == zeroPadPart(meta.part)
           pdfPath == PdfPathOf(meta)
           outFile == ConverterMdPath(meta)
       IN  IF pdfPath \notin DOMAIN fs
           THEN /\ results' = Append(results, ConvertRecord(part, FALSE, "missing_pdf", 0, <<>>))
                /\ idx' = idx + 1
                /\ UNCHANGED <<netVars, askVars, fs, text, normalized, pc, exitCode>>
           ELSE IF fs[pdfPath].kind = "corrupt"
           THEN /\ pc' = "aborted"
                /\ exitCode' = 1
                /\ UNCHANGED <<netVars, askVars, fs, text, normalized, results, idx>>
           ELSE \E date \in Dates :
                LET pdf == fs[pdfPath].pages
                IN  /\ text' = PagesText(pdf, Len(pdf))
                    /\ normalized' = normalizeTextToMarkdown(PagesText(pdf, Len(pdf)))
                    /\ fs' = WriteTo(fs, outFile, convertOne(pdf, meta, date))
                    /\ results' = Append(results, ConvertRecord(part, TRUE, "", Len(pdf), outFile))
                    /\ idx' = idx + 1
                    /\ UNCHANGED <<netVars, askVars, pc, exitCode>>
    /\ UNCHANGED <<netVars, askVars, manifest, yaml, attempt, res, report, summary, renormalized, combVars>>

\* the body of the loop over byPart for one entry: the existsSync guard, then
\* convertOne inside try / catch
convertEntry ==
    /\ pc = "cv_loop"
    /\ idx <= Len(manifest)
    /\ LET meta == manifest[idx]
           part == zeroPadPart(meta.part)
           pdfPath == PdfPathOf(meta)
           outFile == ConverterMdPath(meta)
       IN  IF pdfPath \notin DOMAIN fs
           THEN /\ results' = Append(results, ConvertRecord(part, FALSE, "missing_pdf", 0, <<>>))
                /\ UNCHANGED <<netVars, askVars, fs, text, normalized>>
           ELSE IF fs[pdfPath].kind = "corrupt"
           THEN /\ results' = Append(results, ConvertRecord(part, FALSE, "InvalidPDFException", 0, <<>>))
                /\ UNCHANGED <<netVars, askVars, fs, text, normalized>>
           ELSE \E date \in Dates :
                LET pdf == fs[pdfPath].pages
                IN  /\ text' = PagesText(pdf, Len(pdf))
                    /\ normalized' = normalizeTextToMarkdown(PagesText(pdf, Len(pdf)))
                    /\ fs' = WriteTo(fs, outFile, convertOne(pdf, meta, date))
                    /\ results' = Append(results, ConvertRecord(part, TRUE, "", Len(pdf), outFile))
    /\ idx' = idx + 1
    /\ UNCHANGED <<netVars, askVars, manifest, yaml, pc, attempt, res, report, summary, exitCode, renormalized, combVars>>

\* after the loop: convert_report.json and the summary line
convertWriteReport ==
    /\ pc = "cv_loop"
    /\ idx > Len(manifest)
    /\ report' = results
    /\ fs' = WriteTo(fs, ConvertReportPath, results)
    /\ summary' = [ok |-> Len(SelectSeq(results, LAMBDA r : r.ok)),
                   fail |-> Len(results) - Len(SelectSeq(results, LAMBDA r : r.ok))]
    /\ pc' = "done"
    /\ exitCode' = 0
    /\ UNCHANGED <<netVars, askVars, manifest, yaml, idx, attempt, res, results, normVars, combVars>>

NextConvert ==
    \/ convertReadYaml
    \/ convertEntry
    \/ convertWriteReport

SpecConvert == InitConvert /\ [][NextConvert]_vars

----------------------------------------------------------------------------
\* Claims about the converter (checked under SpecConvert)

\* the entry and the PDF of the newest record of results
NewestMeta == manifest[Len(results)]
NewestPdf == fs[PdfPathOf(NewestMeta)].pages
\* the newest record is a conversion that succeeded, and no later step has run
JustConverted == pc = "cv_loop" /\ results # <<>> /\ results[Len(results)].ok
RECURSIVE SpacedRuns(_)
\* the text runs of a page with one space between neighbours, an item that has
\* no string counting as the empty run
SpacedRuns(page) ==
    IF page = <<>> THEN <<>>
    ELSE LET run == IF page[Len(page)].isString THEN page[Len(page)].str ELSE <<>>
         IN  IF Len(page) = 1 THEN run ELSE SpacedRuns(Front(page)) \o <<SP>> \o run

\* C11: the extracted text is the page texts in page order, each followed by
\* two newlines, a page text being its runs joined by single spaces; the page
\* count reported is the number of pages.
C11_PagesInOrder ==
    JustConverted =>
        LET pdf == NewestPdf
            n == Len(pdf)
            ls == SplitLines(text)
        IN  /\ results[Len(results)].pages = n
            /\ Len(ls) = 2 * n + 1
            /\ \A k \in 1..n : ls[2 * k - 1] = SpacedRuns(pdf[k]) /\ ls[2 * k] = <<>>
            /\ ls[2 * n + 1] = <<>>
\* the three-page PDF "Rule 1", "Rule 2", "Rule 3"
C11_Witness ==
    /\ JustConverted
    /\ NewestPdf = <<(<<Item(RuleText(1))>>), (<<Item(RuleText(2))>>), (<<Item(RuleText(3))>>)>>
    /\ text = RuleText(1) \o <<NL, NL>> \o RuleText(2) \o <<NL, NL>> \o RuleText(3) \o <<NL, NL>>
    /\ results[Len(results)].pages = 3
    /\ <<"pages", ":", SP, "3">> \in LinesOf(FrontMatterLines(fs[ConverterMdPath(NewestMeta)]), "pages")

\* line has the form "key: value"
HasKey(line, key) == Len(line) >= 3 /\ line[1] = key /\ line[2] = ":" /\ line[3] = SP

\* C12: an artifact the converter writes is a '---' line, the four lines title,
\* source_url, pages, generated_at in this order, a '---' line, the heading
\* "# <name>", an empty line, the normalized body and a final newline; pages is
\* the page count of the PDF.
C12_ArtifactLayout ==
    JustConverted =>
        LET meta == NewestMeta
            ls == SplitLines(fs[ConverterMdPath(meta)])
        IN  /\ Len(ls) >= 9
            /\ ls[1] = <<Dashes>>
            /\ ls[2] = <<"title", ":", SP, "CAR", SP, "Part", SP>>
                           \o zeroPadPart(meta.part) \o <<SP, "-", SP>> \o meta.name
            /\ ls[3] = <<"source_url", ":", SP>> \o meta.url
            /\ ls[4] = <<"pages", ":", SP>> \o Decimal(Len(NewestPdf))
            /\ HasKey(ls[5], "generated_at")
            /\ ls[6] = <<Dashes>>
            /\ ls[7] = <<"#", SP>> \o meta.name
            /\ ls[8] = <<>>
            /\ normalized = normalizeTextToMarkdown(text)
            /\ Join(SubSeq(ls, 9, Len(ls)), <<NL>>) = normalized \o <<NL>>
\* the artifact of a two-page PDF with a non-empty body
C12_Witness ==
    /\ JustConverted
    /\ Len(NewestPdf) = 2
    /\ normalized # <<>>
    /\ LET ls == SplitLines(fs[ConverterMdPath(NewestMeta)])
       IN  /\ ls[4] = <<"pages", ":", SP, "2">>
           /\ ls[7] = <<"#", SP>> \o NewestMeta.name
           /\ ls[9] # <<>>

\* the PDF of entry k can be opened and read
Readable(k) ==
    /\ PdfPathOf(manifest[k]) \in DOMAIN fs
    /\ fs[PdfPathOf(manifest[k])].kind = "pdf"

\* C13: with a readable manifest the conversion run never aborts; record k is
\* tagged with the identifier of entry k and is a failure exactly when that
\* entry's PDF is missing or cannot be read; every entry with a readable PDF is
\* converted whatever happened to the entries before it; the report holds one
\* record per entry and its ok and fail counts add up to the number of records.
C13_FailureDoesNotStopConversion ==
    yaml = "list" =>
        /\ pc # "aborted"
        /\ exitCode # 1
        /\ Len(results) <= Len(manifest)
        /\ \A k \in 1..Len(results) :
               /\ results[k].part = zeroPadPart(manifest[k].part)
               /\ results[k].ok <=> Readable(k)
               /\ results[k].ok => ConverterMdPath(manifest[k]) \in DOMAIN fs
        /\ pc = "done" =>
               /\ report = results
               /\ fs[ConvertReportPath] = results
               /\ Len(report) = Len(manifest)
               /\ summary.ok + summary.fail = Len(report)
               /\ summary.ok = Cardinality({k \in 1..Len(report) : report[k].ok})
\* a PDF that cannot be opened, then a PDF that converts, then the report
C13_Witness ==
    /\ pc = "done"
    /\ Len(report) = 2
    /\ ~report[1].ok
    /\ report[1].error = "InvalidPDFException"
    /\ report[2].ok
    /\ summary = [ok |-> 1, fail |-> 1]

----------------------------------------------------------------------------
\* Claims about repeated runs of the combiner (checked under SpecRecombine)

\* the corpus a combiner run on manifest m and disk f writes, as a function
CorpusOf(m, f) == normalizeSpacing(Join(CombineParts(SortedEntries(m), f), <<NL>>)) \o <<NL>>
AfterCombinerRun == pc \in {"combined1", "rerun", "recombined"}

\* C14: after every run the corpus is the function of the manifest and the
\* artifacts now on disk, with exactly the documents that have an artifact now;
\* a second run on unchanged inputs leaves the corpus as it is.
C14_CorpusOfCurrentInputs ==
    AfterCombinerRun =>
        /\ fs[CorpusPath] = CorpusOf(manifest, Remove(fs, CorpusPath))
        /\ LET order == CorpusOrder
           IN  /\ Len(order) = Cardinality(WithArtifact)
               /\ {order[k] : k \in 1..Len(order)} = {manifest[i].part : i \in WithArtifact}
C14_RerunStep == (pc = "combined1" /\ pc' = "rerun") => fs' = fs
C14_FunctionOfInputs == [](C14_CorpusOfCurrentInputs) /\ [][C14_RerunStep]_vars
\* the only artifact was deleted after the first run: the second corpus is empty
C14_Witness ==
    /\ pc = "recombined"
    /\ ManifestOrder = <<87>>
    /\ WithArtifact = {}
    /\ fs[CorpusPath] = <<NL>>
    /\ warnings = <<zeroPadPart(87)>>

----------------------------------------------------------------------------
\* Claims about the stages taken together

\* C17: an entry whose artifact is where the converter writes it is never
\* reported missing by the combiner (checked under SpecCombine).
C17_ConvertedIsFound ==
    pc = "combined" =>
        \A i \in 1..Len(manifest) :
            ConverterMdPath(manifest[i]) \in DOMAIN fs =>
                \A k \in 1..Len(warnings) : warnings[k] # zeroPadPart(manifest[i].part)

\* C18: a converter run over a disk that holds the artifacts of an earlier run
\* on the same PDFs and the same manifest leaves each of these artifacts as it
\* was (checked under SpecConvert).
C18_RerunStep ==
    \A i \in 1..Len(manifest) :
        LET outFile == ConverterMdPath(manifest[i])
        IN  (outFile \in DOMAIN fs /\ outFile \in DOMAIN fs') => fs'[outFile] = fs[outFile]
C18_RerunLeavesArtifacts == [][C18_RerunStep]_vars

----------------------------------------------------------------------------
\* The three stages, each started on any outcome of reading the manifest

InitConfig ==
    \/ InitFetchOf(YamlKinds)
    \/ InitConvert
    \/ InitCombineOf(YamlKinds)

NextConfig ==
    \/ fetchReadYamlThrows
    \/ warmSession
    \/ forOfThrows
    \/ downloadPdfBegin
    \/ tryOnceResolve
    \/ tryOnceReject
    \/ sleep
    \/ returnFail
    \/ writeOpen
    \/ writeChunk
    \/ renameAndReturnOk
    \/ writeReport
    \/ crash
    \/ convertReadYaml
    \/ convertEntry
    \/ convertWriteReport
    \/ Convert
    \/ Combine

SpecConfig == InitConfig /\ [][NextConfig]_vars

\* C16: with a manifest that cannot be read or is not a list, no stage
\* processes an entry, writes a report or a corpus, or ends with success.
C16_MalformedManifestAborts ==
    yaml # "list" =>
        /\ results = <<>>
        /\ report = <<>>
        /\ summary = <<>>
        /\ ConvertReportPath \notin DOMAIN fs
        /\ CorpusPath \notin DOMAIN fs
        /\ exitCode # 0

----------------------------------------------------------------------------
\* The CAR downloader's session: fetchWithRedirects hop by hop

\* headers: 'Accept': 'application/pdf,*/*', the same on every call
AcceptHeader == "application/pdf,*/*"

WarmRedirects == 5      \* warmSession: fetchWithRedirects(REFERER, {}, 5, cookieJar)
TryRedirects == 8       \* tryOnce: fetchWithRedirects(url, {}, 8, cookieJar)

RECURSIVE SplitOn(_, _)
\* s.split(c) for a one-character separator c
SplitOn(s, c) ==
    IF \A i \in 1..Len(s) : s[i] # c THEN <<s>>
    ELSE LET i == CHOOSE i \in 1..Len(s) : s[i] = c /\ \A j \in 1..(i - 1) : s[j] # c
         IN  <<SubSeq(s, 1, i - 1)>> \o SplitOn(SubSeq(s, i + 1, Len(s)), c)

\* cookieJar.set(k, v): a Map keeps the position of a key it already has
JarSet(jar, k, v) ==
    IF \E i \in 1..Len(jar) : jar[i][1] = k
    THEN [i \in 1..Len(jar) |-> IF jar[i][1] = k THEN <<k, v>> ELSE jar[i]]
    ELSE Append(jar, <<k, v>>)

\* const [kv] = cookieStr.split(';'); const [k, v] = kv.split('=');
\* if (k && v) cookieJar.set(k.trim(), v.trim())
collectOne(jar, cookieStr) ==
    LET kv == SplitOn(cookieStr, ";")[1]
        pieces == SplitOn(kv, "=")
        k == pieces[1]
    IN  IF k # <<>> /\ Len(pieces) >= 2 /\ pieces[2] # <<>>
        THEN JarSet(jar, Trim(k), Trim(pieces[2]))
        ELSE jar

RECURSIVE collectCookies(_, _)
\* for (const cookieStr of setCookie) ...
collectCookies(jar, setCookie) ==
    IF setCookie = <<>> THEN jar
    ELSE collectCookies(collectOne(jar, Head(setCookie)), Tail(setCookie))

RECURSIVE CookieHeader(_)
\* Array.from(cookieJar.entries()).map(([k, v]) => k=v).join('; '); <<>>: no header
CookieHeader(jar) ==
    IF jar = <<>> THEN <<>>
    ELSE LET h == jar[1][1] \o <<"=">> \o jar[1][2]
         IN  IF Len(jar) = 1 THEN h ELSE h \o <<";", SP>> \o CookieHeader(Tail(jar))

\* Set-Cookie strings a server sends
CookieSidA == <<"sid", "=", "a1", ";", SP, "Path", "=", "/">>
CookieSidB == <<"sid", "=", "b2">>
CookiePadded == <<"tok", "=", "YQ", "=", "=", ";", SP, "HttpOnly">>
CookieEmpty == <<"sid", "=", ";", SP, "Max-Age", "=", "0">>
\* res.headers['set-cookie']: an array of strings, <<>> when there is none
SetCookieHeaders == {<<>>, <<CookieSidA>>, <<CookieSidB>>, <<CookiePadded>>, <<CookieEmpty>>}

\* final responses: a document and an error page
GoodPdf == [ctype |-> "application/pdf",
            body |-> [size |-> MinPdfBytes, head |-> PdfMagic, gen |-> 1]]
HtmlPage == [ctype |-> "text/html; charset=utf-8",
             body |-> [size |-> MinPdfBytes - 1, head |-> "<html", gen |-> 1]]
SessionResponses == {GoodPdf, HtmlPage}

\* mutant of RedirectsExhausted: one more redirect is followed
RedirectsExhausted_Late(n) == n < 0

\* if (maxRedirects === 0) return reject(new Error('Too many redirects'))
RedirectsExhausted(n) == n = 0

\* the outermost fetchWithRedirects call: the first client.get
FirstRequest(n) ==
    /\ inFlight' = inFlight + 1
    /\ budget' = n
    /\ maxRedirects' = n
    /\ redirects' = 0
    /\ requests' = 1
    /\ sentCookie' = CookieHeader(cookieJar)
    /\ wire' = NoWire
    /\ settled' = "pending"
    /\ UNCHANGED cookieJar

\* warmSession: await fetchWithRedirects(REFERER, {}, 5, cookieJar)
warmSessionBegin ==
    /\ pc = "warm"
    /\ ~ReadYamlThrows(yaml)
    /\ FirstRequest(WarmRedirects)
    /\ pc' = "warmhop"
    /\ UNCHANGED <<docRequests, accepts, waited>>
    /\ UNCHANGED <<nonFetchVars, askVars, manifest, yaml, fs, fetchVars>>

\* tryOnce: await fetchWithRedirects(url, {}, 8, cookieJar)
tryOnceBegin ==
    /\ pc = "try"
    /\ FirstRequest(TryRedirects)
    /\ docRequests' = docRequests + 1
    /\ accepts' = Append(accepts, AcceptHeader)
    /\ pc' = "hop"
    /\ UNCHANGED waited
    /\ UNCHANGED <<nonFetchVars, askVars, manifest, yaml, fs, fetchVars>>

\* mutant of Rejects: warmSession has no try/catch
Rejects_NoCatch(error) ==
    /\ settled' = error
    /\ pc' = "aborted"
    /\ exitCode' = 1
    /\ inFlight' = inFlight - 1
    /\ UNCHANGED <<maxRedirects, budget, requests, sentCookie, docRequests, accepts, waited>>
    /\ UNCHANGED <<nonFetchVars, askVars, manifest, yaml, fs, idx, attempt, res, results, report, summary>>

\* the promise rejects: warmSession swallows it, tryOnce lets it reach main().catch
Rejects(error) ==
    /\ settled' = error
    /\ pc' = IF pc = "warmhop" THEN "loop" ELSE "aborted"
    /\ exitCode' = IF pc = "warmhop" THEN exitCode ELSE 1
    /\ inFlight' = inFlight - 1
    /\ UNCHANGED <<maxRedirects, budget, requests, sentCookie, docRequests, accepts, waited>>
    /\ UNCHANGED <<nonFetchVars, askVars, manifest, yaml, fs, idx, attempt, res, results, report, summary>>

\* a response with a 3xx status and a location header, its set-cookie header
\* one of headers
onRedirectOf(headers) ==
    /\ pc \in {"hop", "warmhop"}
    /\ \E sc \in headers :
         LET jar == collectCookies(cookieJar, sc)
         IN  /\ cookieJar' = jar
             /\ wire' = [redirect |-> TRUE, setCookie |-> sc, payload |-> <<>>]
             /\ redirects' = redirects + 1
             /\ IF RedirectsExhausted(maxRedirects)
                THEN Rejects("Too many redirects")
                ELSE /\ maxRedirects' = maxRedirects - 1
                     /\ requests' = requests + 1
                     /\ docRequests' = IF pc = "hop" THEN docRequests + 1 ELSE docRequests
                     /\ sentCookie' = CookieHeader(jar)
                     /\ UNCHANGED <<budget, settled, pc, inFlight, accepts, waited>>
                     /\ UNCHANGED <<nonFetchVars, askVars, manifest, yaml, fs, fetchVars>>

\* mutant of RetryAfter: the second response is retried as well
RetryAfter_Twice(made, r) == made <= 1 /\ Rejected(r)

\* downloadPdf: the check after the first tryOnce() only; made = calls made before
RetryAfter(made, r) == made = 0 /\ Rejected(r)

onRedirect == onRedirectOf(SetCookieHeaders)

\* any other response: resolve({ statusCode, headers, body })
onResponseOf(headers) ==
    /\ pc \in {"hop", "warmhop"}
    /\ \E sc \in headers, r \in SessionResponses :
         /\ cookieJar' = collectCookies(cookieJar, sc)
         /\ wire' = [redirect |-> FALSE, setCookie |-> sc, payload |-> r]
         /\ settled' = "resolved"
         /\ IF pc = "warmhop"
            THEN /\ pc' = "loop"
                 /\ UNCHANGED <<res, attempt>>
            ELSE /\ res' = r
                 /\ attempt' = attempt + 1
                 /\ pc' = IF RetryAfter(attempt, r) THEN "sleep" ELSE "decide"
    /\ waited' = 0
    /\ inFlight' = inFlight - 1
    /\ UNCHANGED <<maxRedirects, budget, redirects, requests, sentCookie, docRequests, accepts>>
    /\ UNCHANGED <<nonFetchVars, askVars, manifest, yaml, fs, idx, results, report, summary, exitCode>>

onResponse == onResponseOf(SetCookieHeaders)

\* req.on('error', reject)
onError ==
    /\ pc \in {"hop", "warmhop"}
    /\ Rejects("ECONNRESET")
    /\ UNCHANGED <<cookieJar, redirects, wire>>

NextSession ==
    \/ warmSessionBegin
    \/ tryOnceBegin
    \/ onRedirect
    \/ onResponse
    \/ onError
    \/ downloadPdfBegin
    \/ sleep
    \/ returnFail
    \/ writeOpen
    \/ writeChunk
    \/ renameAndReturnOk
    \/ writeReport

\* a run in a fresh checkout: nothing downloaded yet
InitSession ==
    /\ InitFetch
    /\ DOMAIN fs = {}

SpecSession == InitSession /\ [][NextSession]_vars

\* the same run against a site that sets no cookies
onRedirectPlain == onRedirectOf({<<>>})
onResponsePlain == onResponseOf({<<>>})

NextTraffic ==
    \/ warmSessionBegin
    \/ tryOnceBegin
    \/ onRedirectPlain
    \/ onResponsePlain
    \/ onError
    \/ downloadPdfBegin
    \/ sleep
    \/ returnFail
    \/ writeOpen
    \/ writeChunk
    \/ renameAndReturnOk
    \/ writeReport

\* every request gets a response or an error, and the script keeps running
SpecTrafficLive == InitSession /\ [][NextTraffic]_vars /\ WF_vars(NextTraffic)

----------------------------------------------------------------------------
\* Claims about the session (checked under SpecSession)

\* C19: a tryOnce fetch follows at most 8 redirects.  It never makes more than
\* 9 requests; it resolves exactly when the response received last is not a
\* redirect, after at most 8 redirects, with that response; it fails with
\* 'Too many redirects' exactly on the 9th redirect response, with no request
\* made after the 9th.
C19_RedirectCap ==
    budget = TryRedirects =>
        /\ redirects <= 9
        /\ requests <= 9
        /\ settled = "resolved" =>
              /\ ~wire.redirect
              /\ redirects <= 8
              /\ requests = redirects + 1
              /\ res = wire.payload
        /\ (wire # NoWire /\ ~wire.redirect) => settled = "resolved"
        /\ settled = "Too many redirects" <=> redirects = 9
        /\ settled = "Too many redirects" => (wire.redirect /\ requests = 9)
        /\ (wire.redirect /\ redirects <= 8) => settled \in {"pending", "ECONNRESET"}
        /\ (wire.redirect /\ redirects <= 8 /\ settled = "pending") => requests = redirects + 1

\* the 9th redirect response of a document fetch has been received
C19_Witness ==
    /\ budget = TryRedirects
    /\ redirects = 9
    /\ requests = 9
    /\ settled = "Too many redirects"
    /\ pc = "aborted"

\* a document fetch resolved after 8 redirects
C19_ResolvedAtCap ==
    /\ budget = TryRedirects
    /\ redirects = 8
    /\ settled = "resolved"
    /\ res = GoodPdf

\* a cookie as the server set it: the name before the first '=', the value
\* after it up to the first ';'
CookiePair(cookieStr) == SplitOn(cookieStr, ";")[1]
EqAt(pair) == CHOOSE i \in 1..Len(pair) : pair[i] = "=" /\ \A j \in 1..(i - 1) : pair[j] # "="
CookieName(cookieStr) == Trim(SubSeq(CookiePair(cookieStr), 1, EqAt(CookiePair(cookieStr)) - 1))
CookieValue(cookieStr) ==
    Trim(SubSeq(CookiePair(cookieStr), EqAt(CookiePair(cookieStr)) + 1, Len(CookiePair(cookieStr))))
JarNames(jar) == {jar[i][1] : i \in 1..Len(jar)}

\* every cookie of the response received last is in the jar as it was set, and
\* the request in flight carries the whole jar
C20_Stored ==
    /\ \A i \in 1..Len(wire.setCookie) :
         LET c == wire.setCookie[i]
         IN  (\A j \in (i + 1)..Len(wire.setCookie) : CookieName(wire.setCookie[j]) # CookieName(c))
             => \E n \in 1..Len(cookieJar) : cookieJar[n] = <<CookieName(c), CookieValue(c)>>
    /\ (requests > 0 /\ settled = "pending") => sentCookie = CookieHeader(cookieJar)

\* no step removes a name from the jar
C20_NeverDropped == JarNames(cookieJar) \subseteq JarNames(cookieJar')

\* C20: every cookie set by a response is stored in the shared jar and sent on
\* the later requests of the run; a stored cookie is never dropped, only
\* overwritten by a later cookie of the same name.
C20_CookiesKept == [](C20_Stored) /\ [][C20_NeverDropped]_vars

----------------------------------------------------------------------------
\* The grounding context of the ask endpoint (handleAsk) and the ask CLI

MaxActLen == 3      \* longest Act text on disk

\* buildPolicy(): the fixed preamble, one token
Policy == <<"POLICY">>
ActBegin == <<"===== BEGIN: CAA (Act) =====">>
ActEnd == <<"===== END: CAA (Act) =====">>
RulesBegin == <<"===== BEGIN: CAR (Rules) =====">>
RulesEnd == <<"===== END: CAR (Rules) =====">>

\* resolveDefaultPaths: <repo>/scripts/md/ALL_CAR.md
RouteSystemPath == PathResolve(ScriptsRoot, PathJoin(<< <<"md">>, <<"ALL_CAR.md">> >>))
\* ask CLI: path.resolve(projectRoot, 'md', 'car', 'ALL_CAR.md')
CliSystemPath == PathResolve(ScriptsRoot, PathJoin(<< <<"md">>, <<"car">>, <<"ALL_CAR.md">> >>))
\* <repo>/scripts/md/caa/CAA_2023_0010.md
CaaPath == PathResolve(ScriptsRoot, PathJoin(<< <<"md">>, <<"caa">>, <<"CAA_2023_0010.md">> >>))

\* readTextIfExists: '' when the file is not there
readTextIfExists(f, path) == IF path \in DOMAIN f THEN f[path] ELSE <<>>

\* mutant of HasActText: the text is not trimmed before the test
HasActText_NoTrim(caaText) == caaText # <<>>

\* if (caaText && caaText.trim())
HasActText(caaText) == caaText # <<>> /\ Trim(caaText) # <<>>

\* the sections array
Sections(carText, caaText) ==
    <<Policy>>
    \o (IF HasActText(caaText) THEN <<ActBegin, caaText, ActEnd>> ELSE <<>>)
    \o <<RulesBegin, carText, RulesEnd>>

\* sections.join('\n\n')
FullSystemText(carText, caaText) == Join(Sections(carText, caaText), <<NL, NL>>)

\* corpus files: empty, one line, a line with a line end
CorpusTexts == {<<>>, <<"rule">>, <<"rule", NL>>}
ActTexts == UNION {TextsOfLen(n) : n \in 0..MaxActLen}

\* the files an ask request may find
AskFiles ==
    LET opt(path, contents) == {<<>>} \cup {WriteTo(<<>>, path, c) : c \in contents}
    IN  {a @@ b @@ c : a \in opt(RouteSystemPath, CorpusTexts),
                       b \in opt(CliSystemPath, CorpusTexts),
                       c \in opt(CaaPath, ActTexts)}

InitAsk ==
    /\ manifest = <<>>
    /\ yaml = "list"
    /\ fs \in AskFiles
    /\ pc = "ask"
    /\ idx = 1
    /\ attempt = 0
    /\ res = NoResponse
    /\ results = <<>>
    /\ report = <<>>
    /\ summary = <<>>
    /\ exitCode = -1
    /\ text = <<>>
    /\ normalized = <<>>
    /\ renormalized = <<>>
    /\ warnings = <<>>
    /\ combinedCount = -1
    /\ NetIdle
    /\ apiKey \in BOOLEAN
    /\ systemText = <<>>
    /\ askError = ""

\* POST /api/ask: the question check, then handleAsk; a throw becomes a 500
handleAsk ==
    /\ pc = "ask"
    /\ \E question \in BOOLEAN :
         IF ~question
         THEN askError' = "Missing question" /\ systemText' = <<>>
         ELSE IF ~apiKey
         THEN askError' = "Missing OPENAI_API_KEY" /\ systemText' = <<>>
         ELSE IF RouteSystemPath \notin DOMAIN fs
         THEN askError' = "System prompt file not found" /\ systemText' = <<>>
         ELSE /\ askError' = ""
              /\ systemText' = FullSystemText(fs[RouteSystemPath], readTextIfExists(fs, CaaPath))
    /\ pc' = "route_done"
    /\ UNCHANGED <<nonFetchVars, netVars, manifest, yaml, fs, fetchVars, apiKey>>

\* ask CLI main: the texts are read first, then the question, then the key
askMain ==
    /\ pc = "ask"
    /\ \E question \in BOOLEAN :
         IF CliSystemPath \notin DOMAIN fs
         THEN askError' = "System prompt file not found" /\ systemText' = <<>> /\ exitCode' = 1
         ELSE IF ~question
         THEN askError' = "Usage" /\ systemText' = <<>> /\ exitCode' = 2
         ELSE IF ~apiKey
         THEN askError' = "Missing OPENAI_API_KEY" /\ systemText' = <<>> /\ exitCode' = 1
         ELSE /\ askError' = ""
              /\ systemText' = FullSystemText(fs[CliSystemPath], readTextIfExists(fs, CaaPath))
              /\ exitCode' = 0
    /\ pc' = "cli_done"
    /\ UNCHANGED <<nonFetchVars, netVars, manifest, yaml, fs, idx, attempt, res, results, report, summary, apiKey>>

NextAsk ==
    \/ handleAsk
    \/ askMain

SpecAsk == InitAsk /\ [][NextAsk]_vars

----------------------------------------------------------------------------
\* Claims about the grounding context (checked under SpecAsk)

NLNL == <<NL, NL>>
\* the corpus file the finished request was pointed at
AskedPath == IF pc = "route_done" THEN RouteSystemPath ELSE CliSystemPath
\* the Act text on disk has a character that is not whitespace
ActPresent == CaaPath \in DOMAIN fs /\ \E i \in 1..Len(fs[CaaPath]) : fs[CaaPath][i] \notin Whitespace

\* C15: the context is the policy, then the Act between its markers if and
\* only if an Act text exists and is not whitespace-only, then the corpus
\* between its markers; without a corpus file the request ends with an error
\* and no context.
C15_ContextOrder ==
    pc \in {"route_done", "cli_done"} =>
        IF AskedPath \notin DOMAIN fs
        THEN askError # "" /\ systemText = <<>>
        ELSE IF askError # "" THEN systemText = <<>>
        ELSE systemText =
                Policy \o NLNL
                \o (IF ActPresent THEN ActBegin \o NLNL \o fs[CaaPath] \o NLNL \o ActEnd \o NLNL
                    ELSE <<>>)
                \o RulesBegin \o NLNL \o fs[AskedPath] \o NLNL \o RulesEnd

\* a request answered with a whitespace-only Act file on disk and an empty corpus
C15_Witness ==
    /\ pc = "route_done"
    /\ askError = ""
    /\ CaaPath \in DOMAIN fs
    /\ fs[CaaPath] = <<SP, NL>>
    /\ fs[RouteSystemPath] = <<>>
    /\ systemText = Policy \o NLNL \o RulesBegin \o NLNL \o NLNL \o RulesEnd

----------------------------------------------------------------------------
\* Claims about the traffic of a run (checked under SpecTrafficLive and SpecSession)

\* at most 2 attempts of at most 9 requests for the entry in hand
C21_Bounded ==
    /\ attempt <= 2
    /\ Len(accepts) <= 2
    /\ budget = TryRedirects => requests <= 9
    /\ docRequests <= 18
    /\ idx <= Len(manifest) + 1
    /\ Len(results) <= Len(manifest)

\* the count of an entry starts once, when the entry before it is recorded
C21_CountedOnce ==
    /\ idx' \in {idx, idx + 1}
    /\ docRequests' >= docRequests
       \/ (docRequests' = 0 /\ pc = "loop" /\ Len(results) = idx - 1 /\ idx' = idx)

\* C21: the run ends, and each entry causes at most 2 attempts of at most 9
\* requests, 18 in all, so N entries cause at most 18 * N document requests.
C21_Terminates ==
    /\ [](C21_Bounded)
    /\ [][C21_CountedOnce]_vars
    /\ <>(pc \in {"done", "aborted"})

\* a run that ended after 18 requests for its last entry
C21_Witness ==
    /\ pc = "done"
    /\ Len(manifest) = MaxEntries
    /\ docRequests = 18
    /\ attempt = 2

\* C22: acquisition is sequential.  At most one request is in flight, and only
\* while a fetch is awaited; a request for entry idx is in flight only when the
\* results of all entries before it are recorded; and the jar changes only
\* through responses, of which there is never more than one outstanding.
C22_Sequential ==
    /\ inFlight \in {0, 1}
    /\ inFlight = 1 <=> pc \in {"hop", "warmhop"}
    /\ pc = "warmhop" => (idx = 1 /\ results = <<>>)
    /\ pc \in {"try", "hop", "sleep", "decide", "write", "rename"} =>
          (idx <= Len(manifest) /\ Len(results) = idx - 1)
    /\ pc = "loop" => Len(results) = idx - 1

\* the request for the second entry is in flight, the first entry recorded
C22_Witness ==
    /\ pc = "hop"
    /\ inFlight = 1
    /\ idx = 2
    /\ Len(results) = 1
    /\ cookieJar # <<>>

\* C23: while the retry's request is in flight, 400 ms were slept after the
\* rejected first attempt, and the retry's Accept header differs from the
\* first attempt's.
C23_RetryDelayedAndAdjusted ==
    (pc = "hop" /\ Len(accepts) = 2) =>
        /\ waited = 400
        /\ accepts[2] # accepts[1]

----------------------------------------------------------------------------
\* Claims about whole files (checked under SpecConvert and SpecCorpus)

\* the lines of a file that ends with a newline: the pieces before each newline
FileLines(md) == Front(SplitLines(md))
\* three blank lines in a row
HasBlankRun3(ls) == \E i \in 1..(Len(ls) - 2) : ls[i] = <<>> /\ ls[i + 1] = <<>> /\ ls[i + 2] = <<>>
HasTrailingSpace(ls) == \E i \in 1..Len(ls) : ls[i] # <<>> /\ ls[i][Len(ls[i])] \in Whitespace

\* C24: the artifact just written, front matter, heading and body together,
\* has no run of 3 or more blank lines and no line with trailing whitespace.
C24_WholeFileClean ==
    JustConverted =>
        LET ls == FileLines(fs[ConverterMdPath(NewestMeta)])
        IN  ~HasBlankRun3(ls) /\ ~HasTrailingSpace(ls)

----------------------------------------------------------------------------
\* One combiner run over artifacts of every shape

\* a three-page PDF whose second page has no text: its body has two blank lines
\* in a row
GapPdf == << <<Item(<<"Rule", SP, "1">>)>>, <<>>, <<Item(<<"Rule", SP, "3">>)>> >>
\* an artifact cut off before the closing '---' line
NoClosing(e) ==
    <<Dashes, NL, "title", ":", SP>> \o e.name \o <<NL, "#", SP>> \o e.name \o <<NL, NL, "text", NL>>
\* the artifacts an entry may have where the combiner looks for it
ArtifactForms(e) ==
    {convertOne(PdfA, e, OldDate), convertOne(GapPdf, e, OldDate), NoClosing(e), HandWritten(e)}
ArtifactOptions(e) == {<<>>} \cup {(CombinerMdPath(e) :> raw) : raw \in ArtifactForms(e)}
RECURSIVE CorpusFsUpTo(_, _)
CorpusFsUpTo(m, n) ==
    IF n = 0 THEN {<<>>}
    ELSE {a @@ b : a \in CorpusFsUpTo(m, n - 1), b \in ArtifactOptions(m[n])}
\* manifests of one or two entries
CorpusManifests == {m \in CombineManifests : Len(m) \in {1, 2}}

InitCorpus ==
    /\ yaml = "list"
    /\ manifest \in CorpusManifests
    /\ fs \in CorpusFsUpTo(manifest, Len(manifest))
    /\ pc = "idle"
    /\ warnings = <<>>
    /\ combinedCount = -1
    /\ NetIdle
    /\ AskIdle
    /\ idx = 0
    /\ attempt = 0
    /\ res = NoResponse
    /\ results = <<>>
    /\ report = <<>>
    /\ summary = <<>>
    /\ exitCode = -1
    /\ text = <<>>
    /\ normalized = <<>>
    /\ renormalized = <<>>

NextCorpus == Combine

SpecCorpus == InitCorpus /\ [][NextCorpus]_vars

----------------------------------------------------------------------------
\* Claims about the corpus of one run (checked under SpecCorpus)

IsEnd(line) == Len(line) >= 5 /\ SubSeq(line, 1, 5) = <<"<!--", SP, "END", SP, "Part_">>
NonBlank(lines) == SelectSeq(lines, LAMBDA l : l # <<>>)
\* the lines of the corpus between the metadata block of e and its END line
BodyOf(ls, e) ==
    LET b == CHOOSE i \in 1..Len(ls) : ls[i] = BeginMarker(e)
        c == CHOOSE j \in (b + 2)..Len(ls) :
                 ls[j] = <<Fence>> /\ \A k \in (b + 2)..(j - 1) : ls[k] # <<Fence>>
        n == CHOOSE j \in (c + 1)..Len(ls) :
                 IsEnd(ls[j]) /\ \A k \in (c + 1)..(j - 1) : ~IsEnd(ls[k])
    IN  SubSeq(ls, c + 1, n - 1)
\* an artifact has an opening and a closing '---' line
HasOpening(rl) == Trim(rl[1]) = <<Dashes>>
Closings(rl) == {i \in 2..Len(rl) : Trim(rl[i]) = <<Dashes>>}
FirstClosing(rl) == CHOOSE i \in Closings(rl) : \A j \in Closings(rl) : i <= j
\* the metadata block of a document read with empty metadata: part, name and
\* the manifest URL, nothing else
EmptyMetaBlock(block, e) ==
    /\ Len(block) = 3
    /\ Cardinality(LinesOf(block, "part")) = 1
    /\ Cardinality(LinesOf(block, "name")) = 1
    /\ LinesOf(block, "source_url") = {<<"source_url", ":", SP>> \o e.url}
\* the front-matter block of the artifact does not parse
Unparsable(rl) ==
    /\ HasOpening(rl)
    /\ Closings(rl) # {}
    /\ ~YamlParse(Join(SubSeq(rl, 2, FirstClosing(rl) - 1), <<NL>>)).ok

\* C25: the run succeeds and emits every artifact it finds.  With a front-matter
\* block that does not parse the document has empty metadata and its body is
\* the lines after the closing '---'; with no opening or no closing '---' it has
\* empty metadata and its body is the whole file.
C25_BestEffortParse ==
    pc = "combined" =>
        LET ls == CorpusLines
        IN  /\ exitCode = 0
            /\ combinedCount = Cardinality(WithArtifact)
            /\ \A k \in WithArtifact :
                 LET e == manifest[k]
                     rl == SplitLines(fs[CombinerMdPath(e)])
                     body == BodyOf(ls, e)
                 IN  /\ \E i \in 1..Len(ls) : ls[i] = BeginMarker(e)
                     /\ Unparsable(rl) =>
                          /\ EmptyMetaBlock(BlockOf(ls, e.part), e)
                          /\ NonBlank(body) = NonBlank(SubSeq(rl, FirstClosing(rl) + 1, Len(rl)))
                          /\ \A i \in 1..FirstClosing(rl) : \A j \in 1..Len(body) : body[j] # rl[i]
                     /\ (~HasOpening(rl) \/ Closings(rl) = {}) =>
                          /\ EmptyMetaBlock(BlockOf(ls, e.part), e)
                          /\ NonBlank(body) = NonBlank(rl)

\* a corpus of two documents: one whose block does not parse, one cut off
\* before the closing line
C25_Witness ==
    /\ pc = "combined"
    /\ combinedCount = 2
    /\ \E k \in WithArtifact : Unparsable(SplitLines(fs[CombinerMdPath(manifest[k])]))
    /\ \E k \in WithArtifact : fs[CombinerMdPath(manifest[k])] = NoClosing(manifest[k])

\* C26: the END line of a document and the BEGIN line of the next are
\* separated by exactly one blank line, and the corpus ends with exactly one
\* newline character.
C26_OneBlankOneNewline ==
    (pc = "combined" /\ combinedCount >= 1) =>
        LET t == fs[CorpusPath]
            ls == CorpusLines
        IN  /\ \A i \in 1..Len(ls) :
                 (IsEnd(ls[i]) /\ \E j \in (i + 1)..Len(ls) : IsBegin(ls[j]))
                     => (ls[i + 1] = <<>> /\ IsBegin(ls[i + 2]))
            /\ t[Len(t)] = NL
            /\ t[Len(t) - 1] # NL

\* C27: every emitted document has one BEGIN line with its padded identifier
\* and name, then the metadata block, then its body, then one END line with
\* the same identifier; no marker lies between the two; the pairs are as many
\* as the count logged.
C27_MarkersWellFormed ==
    pc = "combined" =>
        LET ls == CorpusLines
            B == {i \in 1..Len(ls) : IsBegin(ls[i])}
            E == {i \in 1..Len(ls) : IsEnd(ls[i])}
        IN  /\ Cardinality(B) = combinedCount
            /\ Cardinality(E) = combinedCount
            /\ \A k \in WithArtifact :
                 \E b \in B, n \in E :
                     /\ ls[b] = BeginMarker(manifest[k])
                     /\ ls[n] = <<"<!--", SP, "END", SP, "Part_">>
                                    \o SubSeq(ls[b], 6, 5 + PadWidth) \o <<SP, "-->">>
                     /\ BeginPart(ls[b]) = manifest[k].part
                     /\ b < n
                     /\ ls[b + 1] = <<YamlFence>>
                     /\ \E c \in (b + 2)..(n - 1) : ls[c] = <<Fence>>
                     /\ \A j \in B \cup E : ~(b < j /\ j < n)

\* a corpus of two documents
C27_Witness ==
    /\ pc = "combined"
    /\ combinedCount = 2
    /\ Cardinality({i \in 1..Len(CorpusLines) : IsEnd(CorpusLines[i])}) = 2

\* of a run of blank lines only the first is kept
CollapseBlanks(lines) ==
    LET indexed == [i \in 1..Len(lines) |-> <<i, lines[i]>>]
        kept == SelectSeq(indexed, LAMBDA p : ~(p[2] = <<>> /\ p[1] > 1 /\ lines[p[1] - 1] = <<>>))
    IN  [k \in 1..Len(kept) |-> kept[k][2]]
HasTwoBlanks(lines) == \E i \in 1..(Len(lines) - 1) : lines[i] = <<>> /\ lines[i + 1] = <<>>
\* the body of the artifact of e as the combiner takes it, trailing whitespace trimmed
TrimmedBodyLines(e) ==
    SplitLines(TrimEnd(extractFrontMatterAndBody(fs[CombinerMdPath(e)]).body))

\* C29: the corpus has no three newline characters in a row, and the body of
\* every document is the artifact's body with each run of blank lines reduced
\* to one blank line.
C29_SpacingEverywhere ==
    pc = "combined" =>
        LET t == fs[CorpusPath]
            ls == CorpusLines
        IN  /\ \A i \in 1..(Len(t) - 2) : ~(t[i] = NL /\ t[i + 1] = NL /\ t[i + 2] = NL)
            /\ \A k \in WithArtifact :
                 BodyOf(ls, manifest[k]) = CollapseBlanks(TrimmedBodyLines(manifest[k]))

\* a document whose artifact body has two blank lines in a row
C29_Witness ==
    /\ pc = "combined"
    /\ \E k \in WithArtifact :
         /\ HasTwoBlanks(TrimmedBodyLines(manifest[k]))
         /\ ~HasTwoBlanks(BodyOf(CorpusLines, manifest[k]))

----------------------------------------------------------------------------
\* Claims about failed fetches (checked under SpecFetch and SpecSession)

\* every document recorded as failed has no .tmp file, and its final path is
\* absent or holds the file of the earlier run
C28_FailedUntouched ==
    \A i \in 1..Len(results) :
        ~results[i].ok =>
            LET final == OutPathOf(manifest[i])
            IN  /\ TmpPathOf(final) \notin DOMAIN fs
                /\ final \in DOMAIN fs => fs[final] = OldFile
\* the file system changes only on the way of an accepted response
C28_WriteStep ==
    fs' # fs => (pc \in {"decide", "write", "rename"} /\ ~Rejected(res))

WarmFailed == budget = WarmRedirects /\ settled \in {"ECONNRESET", "Too many redirects"}
\* after a failed warm-up the run is at the start of its loop, nothing aborted
C30_RunGoesOn ==
    WarmFailed =>
        /\ pc \in {"loop", "try"}
        /\ exitCode = -1
        /\ idx = 1
        /\ idx <= Len(manifest)
        /\ results = <<>>
        /\ inFlight = 0
\* the step in which the warm-up fails keeps every cookie of the jar
C30_FailStep ==
    (pc = "warmhop" /\ settled' \in {"ECONNRESET", "Too many redirects"}) =>
        /\ Len(cookieJar') >= Len(cookieJar)
        /\ \A n \in 1..Len(cookieJar) :
             /\ cookieJar'[n][1] = cookieJar[n][1]
             /\ cookieJar'[n] = cookieJar[n]
                \/ \E k \in 1..Len(wire'.setCookie) : CookieName(wire'.setCookie[k]) = cookieJar[n][1]

\* C30: a failed warm-up request does not abort the run; the cookies collected
\* before the failure stay in the jar, and the loop over the entries starts.
C30_WarmupFailureSwallowed == [](C30_RunGoesOn) /\ [][C30_FailStep]_vars

\* the warm-up failed on its 6th redirect with a cookie in the jar, and the
\* download of the first document has begun
C30_Witness ==
    /\ WarmFailed
    /\ settled = "Too many redirects"
    /\ pc = "try"
    /\ exitCode = -1
    /\ cookieJar # <<>>

====
